---- MODULE Spec2Model ----
(***************************************************************************)
(* Model of the retrieval and context-aggregation engine of rag.py:        *)
(* _to_score, _pack, AIService.retrieve and the query loop shared by the   *)
(* pipelines search / generate_ideas / generate_requirements /             *)
(* generate_change_request.                                                *)
(*                                                                         *)
(* Distances and scores are floats (see "Python floats" below).            *)
(***************************************************************************)
EXTENDS Integers, Sequences, FiniteSets, TLC

VARIABLES
    pc,             \* position of the pipeline invocation
    topk_per_type,  \* the per-type limit handed to retrieve
    search_queries, \* the list returned by augment_query
    qi,             \* index of the query the for-loop is at
    pk_type,        \* _pack under test: its hit_type argument
    rows,           \* retrieve: the raw rows each source returned (per type)
    hits,           \* retrieve: the local list `hits` / its return value
    all_hits,       \* pipeline: the accumulated list
    seen_ids,       \* pipeline: the set of (type, id) already captured
    rows_left,      \* rows the sources may still return in this run (bound)
    call_metric,    \* distance metric of the similarity search call site
    ts_args,        \* _to_score under test: its arguments
    ts_res,         \* _to_score under test: its outcomes
    rag_module,     \* augment_query: the module it is loaded from
    queries_text,   \* augment_query: the content of the generative response
    context,        \* the string returned by _format_context
    pipeline,       \* the pipeline method that is invoked
    embed_calls,    \* embedding calls made by the invocation
    search_calls,   \* similarity-search calls made by the invocation
    invocation,     \* number of pipeline invocations started (bound)
    queries_left,   \* queries the expansions may still yield (bound)
    calls,          \* the collaborator calls of the invocation, in order
    outcome,        \* what the caller of the pipeline method got
    invocations,    \* interleaved pipeline invocations: the frame of each
    enum_args,      \* enum conversion under test: its arguments
    enum_res,       \* enum conversion under test: its outcome
    session,        \* session_scope: the session and what was done to it
    _db_instance,   \* database.py: the module global of get_db
    managers,       \* DatabaseManager instances constructed so far
    threads         \* the threads calling get_db: position and return value

\* the state of the query expansion, of the context and of the service calls
ctx_vars == <<rag_module, queries_text, context, pipeline, embed_calls,
              search_calls, invocation, queries_left>>

\* the collaborator calls of a pipeline invocation and its end
svc_vars == <<calls, outcome>>

\* the state outside rag.py
aux_vars == <<invocations, enum_args, enum_res, session, _db_instance, managers,
              threads>>

vars == <<pc, topk_per_type, search_queries, qi, pk_type, rows, hits, all_hits,
          seen_ids, rows_left, call_metric, ts_args, ts_res, ctx_vars, svc_vars,
          aux_vars>>

(***************************************************************************)
(* Bounds                                                                  *)
(***************************************************************************)
MaxQueries == 2
MaxTopK == 2
MaxRowsTotal == 2
MaxId == 1
MaxAbsDist == 3
MantissaBits == 3
MaxAffix == 2
MaxBodyHits == 1
MaxInvocations == 2
MaxIdeas == 1

\* threads calling get_db
MaxThreads == 2

\* a source may answer with one row more than the limit it was given
MaxRowsPerCall == MaxTopK + 1

\* the cosine distance is in [0, 2]
MaxDist == 2

Ids == 1..MaxId
\* primary keys of the requirements table, written as negative numbers: no
\* key of another table
RequirementIds == {-i : i \in Ids}

\* the float of an integer small enough to have one
Float(k) == <<k, 1>>
\* cosine distances the sources report
Dists == {Float(k) : k \in 0..MaxDist}
\* Python's None in the place of a record id (ids are 1..MaxId)
None == 0
Metrics == {"cosine", "l2", "mips"}
\* the outcome of a float division by 0.0: the quotient 1/0 that has no value
ZeroDivisionError == <<1, 0>>

\* the order in which retrieve calls the six sources
SourceOrder ==
    <<"Project", "Document", "Idea", "Change Request", "Stakeholder", "Requirement">>

EntityTypes == {SourceOrder[i] : i \in 1..Len(SourceOrder)}

Min(a, b) == IF a <= b THEN a ELSE b

(***************************************************************************)
(* Python floats.  A float is the rational <<num, den>>, den > 0, in       *)
(* lowest terms, that it stands for; the result of an arithmetic operation *)
(* is the exact result rounded to MantissaBits significant bits, ties to   *)
(* even (binary64 in small: exponent range not limited).                   *)
(***************************************************************************)
RECURSIVE Pow2(_)
Pow2(k) == IF k = 0 THEN 1 ELSE 2 * Pow2(k - 1)

Abs(n) == IF n < 0 THEN -n ELSE n

\* m * 2^e in lowest terms
RECURSIVE Scaled(_, _)
Scaled(m, e) ==
    IF e >= 0 THEN <<m * Pow2(e), 1>>
    ELSE IF m % 2 = 0 THEN Scaled(m \div 2, e + 1)
    ELSE <<m, Pow2(-e)>>

\* A / B * 2^e brought to 2^(MantissaBits-1) <= A / B < 2^MantissaBits
MantissaMin == Pow2(MantissaBits - 1)

RECURSIVE Normalized(_, _, _)
Normalized(A, B, e) ==
    IF A < MantissaMin * B THEN Normalized(2 * A, B, e - 1)
    ELSE IF A >= 2 * MantissaMin * B THEN Normalized(A, 2 * B, e + 1)
    ELSE <<A, B, e>>

\* the float nearest to the rational n / d (d > 0)
RoundToFloat(n, d) ==
    IF n = 0 THEN <<0, 1>>
    ELSE LET nm == Normalized(Abs(n), d, 0)
             m0 == nm[1] \div nm[2]
             r == nm[1] % nm[2]
             m == IF 2 * r > nm[2] \/ (2 * r = nm[2] /\ m0 % 2 = 1) THEN m0 + 1 ELSE m0
         IN  Scaled(IF n < 0 THEN -m ELSE m, nm[3])

\* x + y, x / y and -x on floats
FAdd(x, y) == RoundToFloat(x[1] * y[2] + y[1] * x[2], x[2] * y[2])

FDivExact(x, y) ==
    IF y[1] > 0 THEN <<x[1] * y[2], x[2] * y[1]>> ELSE <<-(x[1] * y[2]), x[2] * (-y[1])>>

FDiv(x, y) ==
    IF y[1] = 0 THEN ZeroDivisionError
    ELSE RoundToFloat(FDivExact(x, y)[1], FDivExact(x, y)[2])

FNeg(x) == <<-x[1], x[2]>>

One == <<1, 1>>
Zero == <<0, 1>>

(***************************************************************************)
(* _to_score                                                               *)
(***************************************************************************)
\* variant: the linear transform 1 - distance in place of 1 / (1 + distance)
ToScoreLinear(distance, metric) ==
    IF metric \in {"cosine", "l2"} THEN FAdd(One, FNeg(distance)) ELSE FNeg(distance)

_to_score(distance, metric) ==
    IF metric \in {"cosine", "l2"} THEN FDiv(One, FAdd(One, distance)) ELSE FNeg(distance)

\* order on scores (both denominators are positive)
ScoreLt(a, b) == a[1] * b[2] < b[1] * a[2]
ScoreLe(a, b) == a[1] * b[2] <= b[1] * a[2]

(***************************************************************************)
(* ORM instances (models.py) and Python strings                            *)
(*                                                                         *)
(* A value is a 4-tuple <<kind, name, i, n>>.  Str(field, i, n) is the     *)
(* string made of the first n characters of the content of column `field`  *)
(* of record i; Lit(s) is the literal string s.  An instance is the record *)
(* of its __dict__: the loaded columns and SQLAlchemy's                    *)
(* _sa_instance_state.  Of the columns, the ones modelled are id,          *)
(* embedding, and the heading and body columns _format_context reads.      *)
(***************************************************************************)
Str(field, i, n) == <<"str", field, i, n>>
Lit(s) == <<"lit", s, 0, 0>>
Vector(i) == <<"vector", "embedding", i, 1536>>
InstanceState(i) == <<"state", "InstanceState", i, 0>>

\* text[:w]
Slice(v, w) == <<v[1], v[2], v[3], Min(v[4], w)>>
\* len(text)
StrLen(v) == v[4]

\* the instance of type t with primary key i whose body text has n characters
Instance(t, i, n) ==
    CASE t = "Project" ->
            [_sa_instance_state |-> InstanceState(i), id |-> i,
             title |-> Str("title", i, 8), embedding |-> Vector(i)]
      [] t = "Document" ->
            [_sa_instance_state |-> InstanceState(i), id |-> i,
             title |-> Str("title", i, 8), type |-> Str("type", i, 8),
             text |-> Str("text", i, n), embedding |-> Vector(i)]
      [] t = "Idea" ->
            [_sa_instance_state |-> InstanceState(i), id |-> i,
             title |-> Str("title", i, 8), description |-> Str("description", i, n),
             embedding |-> Vector(i)]
      [] t = "Change Request" ->
            [_sa_instance_state |-> InstanceState(i), id |-> i,
             summary |-> Str("summary", i, n), embedding |-> Vector(i)]
      [] t = "Stakeholder" ->
            [_sa_instance_state |-> InstanceState(i), id |-> i,
             name |-> Str("name", i, 8), embedding |-> Vector(i)]

\* a RequirementVersion; r is the id of the Requirement its relationship
\* `requirement` leads to, or None
VersionInstance(i, r, n) ==
    [_sa_instance_state |-> InstanceState(i), id |-> i,
     title |-> Str("title", i, 8), type |-> Str("type", i, 8),
     description |-> Str("description", i, n), embedding |-> Vector(i),
     requirement |-> r]

\* a Requirement: it has no title, no description and no embedding column
RequirementInstance(i) == [_sa_instance_state |-> InstanceState(i), id |-> i]

\* k.startswith('_'), for the attribute names of the instances above
StartsWithUnderscore(k) == k \in {"_sa_instance_state"}

\* {k: v for k, v in obj.__dict__.items() if not k.startswith('_')}
Snapshot(obj) ==
    [k \in {a \in DOMAIN obj : ~StartsWithUnderscore(a)} |-> obj[k]]

(***************************************************************************)
(* _pack                                                                   *)
(***************************************************************************)
\* variant: the score follows the metric of the similarity search
PackCallMetric(hit_type, rs, topk) ==
    [i \in 1..Min(topk, Len(rs)) |->
        [type |-> hit_type, id |-> rs[i].obj.id, distance |-> rs[i].dist,
         score |-> _to_score(rs[i].dist, call_metric),
         data |-> Snapshot(rs[i].obj)]]

\* variant: without the rows[:topk] slice
PackNoTruncate(hit_type, rs, topk) ==
    [i \in 1..Len(rs) |->
        [type |-> hit_type, id |-> rs[i].obj.id, distance |-> rs[i].dist,
         score |-> _to_score(rs[i].dist, "cosine"),
         data |-> Snapshot(rs[i].obj)]]

_pack(hit_type, rs, topk) ==
    [i \in 1..Min(topk, Len(rs)) |->
        [type |-> hit_type, id |-> rs[i].obj.id, distance |-> rs[i].dist,
         score |-> _to_score(rs[i].dist, "cosine"),
         data |-> Snapshot(rs[i].obj)]]

(***************************************************************************)
(* list.sort(key=lambda h: h["score"], reverse=True): stable, descending   *)
(***************************************************************************)
\* variant: a descending sort that reverses the order of equal scores
RECURSIVE InsertDescBeforeTies(_, _)
InsertDescBeforeTies(h, s) ==
    IF s = <<>> THEN <<h>>
    ELSE IF ScoreLe(Head(s).score, h.score) THEN <<h>> \o s
    ELSE <<Head(s)>> \o InsertDescBeforeTies(h, Tail(s))

RECURSIVE SortTiesReversed(_)
SortTiesReversed(s) ==
    IF s = <<>> THEN <<>>
    ELSE InsertDescBeforeTies(s[Len(s)], SortTiesReversed(SubSeq(s, 1, Len(s) - 1)))

\* variant: the list left in insertion order
SortNone(s) == s

\* variant: the sort without reverse=True
RECURSIVE InsertAsc(_, _)
InsertAsc(h, s) ==
    IF s = <<>> THEN <<h>>
    ELSE IF ScoreLt(h.score, Head(s).score) THEN <<h>> \o s
    ELSE <<Head(s)>> \o InsertAsc(h, Tail(s))

RECURSIVE SortByScoreAsc(_)
SortByScoreAsc(s) ==
    IF s = <<>> THEN <<>>
    ELSE InsertAsc(s[Len(s)], SortByScoreAsc(SubSeq(s, 1, Len(s) - 1)))

\* the place of s[i] in the sorted list: behind every entry of a higher score
\* and behind the earlier entries of its own score
PlaceDesc(s, i) ==
    1 + Cardinality({j \in 1..Len(s) :
                        \/ ScoreLt(s[i].score, s[j].score)
                        \/ j < i /\ ~ScoreLt(s[j].score, s[i].score)})

SortByScoreDesc(s) ==
    LET place == [i \in 1..Len(s) |-> PlaceDesc(s, i)]
    IN  [p \in 1..Len(s) |-> s[CHOOSE i \in 1..Len(s) : place[i] = p]]

(***************************************************************************)
(* The six similarity sources (collaborators): what a call may return      *)
(***************************************************************************)
\* the instances a source may return: the Requirement source returns
\* RequirementVersions, whose relationship `requirement` leads to a
\* Requirement or is None
Objects(t) ==
    IF t = "Requirement"
    THEN {VersionInstance(i, r, 3) : i \in Ids, r \in RequirementIds \cup {None}}
    ELSE {Instance(t, i, 3) : i \in Ids}

RowSet(t) == [obj : Objects(t), dist : Dists]

SeqsUpTo(S, n) == UNION {[1..k -> S] : k \in 0..n}

\* the row lists the source of type t may answer a call with
Answers(t, left) == SeqsUpTo(RowSet(t), Min(MaxRowsPerCall, left))

NoRows == [t \in EntityTypes |-> <<>>]

\* answers is what the six sources may answer one retrieve call with, when
\* they may return `left` more rows
IsAnswers(answers, left) ==
    \E r1 \in Answers("Project", left) :
    \E r2 \in Answers("Document", left - Len(r1)) :
    \E r3 \in Answers("Idea", left - Len(r1) - Len(r2)) :
    \E r4 \in Answers("Change Request", left - Len(r1) - Len(r2) - Len(r3)) :
    \E r5 \in Answers("Stakeholder", left - Len(r1) - Len(r2) - Len(r3) - Len(r4)) :
    \E r6 \in Answers("Requirement",
                      left - Len(r1) - Len(r2) - Len(r3) - Len(r4) - Len(r5)) :
        answers = [t \in EntityTypes |->
                      CASE t = "Project" -> r1
                        [] t = "Document" -> r2
                        [] t = "Idea" -> r3
                        [] t = "Change Request" -> r4
                        [] t = "Stakeholder" -> r5
                        [] t = "Requirement" -> r6]

RECURSIVE SumLen(_, _)
SumLen(answers, ts) ==
    IF ts = {} THEN 0
    ELSE LET t == CHOOSE x \in ts : TRUE
         IN  Len(answers[t]) + SumLen(answers, ts \ {t})

(***************************************************************************)
(* retrieve: resolution of requirement versions (lines 168-172)            *)
(***************************************************************************)
\* variant: the version is packed whether or not it has a requirement
ResolveNever(req_rows) == req_rows

Resolve(req_rows) ==
    [i \in 1..Len(req_rows) |->
        [obj |-> IF req_rows[i].obj.requirement # None
                 THEN RequirementInstance(req_rows[i].obj.requirement)
                 ELSE req_rows[i].obj,
         dist |-> req_rows[i].dist]]

(***************************************************************************)
(* retrieve: hits += packed                                                *)
(***************************************************************************)
\* variant: the packed hits put in front of the list
ExtendFront(lst, packed) == packed \o lst

Extend(lst, packed) == lst \o packed

(***************************************************************************)
(* The merge loop of the pipelines: for hit in hits: if key not in seen    *)
(***************************************************************************)
HitKey(h) == <<h.type, h.id>>

Keys(s) == {HitKey(s[i]) : i \in 1..Len(s)}

\* the state <<all_hits, seen_ids>> after the for-loop over hs
\* variant: every hit appended, seen or not
RECURSIVE MergeNoDedup(_, _, _)
MergeNoDedup(acc, seen, hs) ==
    IF hs = <<>> THEN <<acc, seen>>
    ELSE MergeNoDedup(Append(acc, Head(hs)), seen \cup {HitKey(Head(hs))}, Tail(hs))

\* variant: a later hit of a seen key replaces a lower-scoring entry
ReplaceKey(acc, h) ==
    [i \in 1..Len(acc) |->
        IF HitKey(acc[i]) = HitKey(h) /\ ScoreLt(acc[i].score, h.score)
        THEN h ELSE acc[i]]

RECURSIVE MergeBestWins(_, _, _)
MergeBestWins(acc, seen, hs) ==
    IF hs = <<>> THEN <<acc, seen>>
    ELSE IF HitKey(Head(hs)) \notin seen
         THEN MergeBestWins(Append(acc, Head(hs)), seen \cup {HitKey(Head(hs))}, Tail(hs))
         ELSE MergeBestWins(ReplaceKey(acc, Head(hs)), seen, Tail(hs))

\* hs[i] is appended when its key is neither in seen nor the key of an
\* earlier hit of hs, which the loop added to seen by then
Merge(acc, seen, hs) ==
    LET fresh(i) == /\ HitKey(hs[i]) \notin seen
                    /\ \A j \in 1..(i - 1) : HitKey(hs[j]) # HitKey(hs[i])
        appended == SelectSeq([i \in 1..Len(hs) |-> i], fresh)
    IN  <<acc \o [k \in 1..Len(appended) |-> hs[appended[k]]], seen \cup Keys(hs)>>

(***************************************************************************)
(* retrieve (after the embedding of the query): answers[t] is what the     *)
(* source of type t returned                                               *)
(***************************************************************************)
retrieve(answers, topk) ==
    SortByScoreDesc(
        Extend(Extend(Extend(Extend(Extend(Extend(<<>>,
            _pack("Project", answers["Project"], topk)),
            _pack("Document", answers["Document"], topk)),
            _pack("Idea", answers["Idea"], topk)),
            _pack("Change Request", answers["Change Request"], topk)),
            _pack("Stakeholder", answers["Stakeholder"], topk)),
            _pack("Requirement", Resolve(answers["Requirement"]), topk)))

(***************************************************************************)
(* The pipeline invocation                                                 *)
(***************************************************************************)
TsIdle == [d1 |-> Zero, d2 |-> Zero, metric |-> "cosine"]

\* no query expansion, no context and no service call in this behaviour
CtxIdle ==
    /\ rag_module = "src/rag.py"
    /\ queries_text = <<>>
    /\ context = <<>>
    /\ pipeline = "search"
    /\ embed_calls = 0
    /\ search_calls = 0
    /\ invocation = 0
    /\ queries_left = 0

\* no pipeline method was called
SvcIdle ==
    /\ calls = <<>>
    /\ outcome = "none"

\* nothing outside rag.py has happened
AuxIdle ==
    /\ invocations = <<>>
    /\ enum_args = <<>>
    /\ enum_res = <<>>
    /\ session = <<>>
    /\ _db_instance = 0
    /\ managers = 0
    /\ threads = <<>>

Init ==
    /\ pc = "start"
    /\ topk_per_type = MaxTopK
    /\ search_queries = <<>>
    /\ qi = 1
    /\ pk_type = "Project"
    /\ rows = NoRows
    /\ hits = <<>>
    /\ all_hits = <<>>
    /\ seen_ids = {}
    /\ rows_left = MaxRowsTotal
    /\ call_metric = "cosine"
    /\ ts_args = TsIdle
    /\ ts_res = <<>>
    /\ CtxIdle
    /\ SvcIdle
    /\ AuxIdle

\* search_queries = self.augment_query(text); all_hits = []; seen_ids = set()
AugmentQuery ==
    /\ pc = "start"
    /\ \E n \in 0..MaxQueries : search_queries' = [i \in 1..n |-> i]
    /\ all_hits' = <<>>
    /\ seen_ids' = {}
    /\ qi' = 1
    /\ pc' = "loop"
    /\ UNCHANGED <<topk_per_type, pk_type, rows, hits, rows_left, call_metric,
                   ts_args, ts_res>>
    /\ UNCHANGED <<ctx_vars, svc_vars, aux_vars>>

\* one iteration of the for-loop: hits = self.retrieve(sq, topk_per_type),
\* the six sources answering with any rows, then the merge of the returned
\* list into all_hits (search, lines 217-227)
Retrieve ==
    /\ pc = "loop"
    /\ qi <= Len(search_queries)
    /\ IsAnswers(rows', rows_left)
    /\ rows_left' = rows_left - SumLen(rows', EntityTypes)
    /\ hits' = retrieve(rows', topk_per_type)
    /\ all_hits' = Merge(all_hits, seen_ids, hits')[1]
    /\ seen_ids' = Merge(all_hits, seen_ids, hits')[2]
    /\ qi' = qi + 1
    /\ UNCHANGED <<pc, topk_per_type, search_queries, pk_type, call_metric,
                   ts_args, ts_res>>
    /\ UNCHANGED <<ctx_vars, svc_vars, aux_vars>>

\* after the loop (search, lines 229-258): all_hits.sort(key=score,
\* reverse=True), then the context is formatted and the generation call made,
\* and the invocation returns
SortAndGenerate ==
    /\ pc = "loop"
    /\ qi > Len(search_queries)
    /\ all_hits' = SortByScoreDesc(all_hits)
    /\ pc' = "done"
    /\ UNCHANGED <<topk_per_type, search_queries, qi, pk_type, rows, hits, seen_ids,
                   rows_left, call_metric, ts_args, ts_res>>
    /\ UNCHANGED <<ctx_vars, svc_vars, aux_vars>>

Next ==
    \/ AugmentQuery
    \/ Retrieve
    \/ SortAndGenerate

Spec == Init /\ [][Next]_vars

(***************************************************************************)
(* retrieve as a function of its limit and of the sources' answers         *)
(***************************************************************************)
InitRetrieve ==
    /\ pc = "rt_call"
    /\ topk_per_type \in 1..MaxTopK
    /\ IsAnswers(rows, MaxRowsTotal)
    /\ hits = <<>>
    /\ search_queries = <<>>
    /\ qi = 1
    /\ pk_type = "Project"
    /\ all_hits = <<>>
    /\ seen_ids = {}
    /\ rows_left = 0
    /\ call_metric = "cosine"
    /\ ts_args = TsIdle
    /\ ts_res = <<>>
    /\ CtxIdle
    /\ SvcIdle
    /\ AuxIdle

RetrieveCall ==
    /\ pc = "rt_call"
    /\ hits' = retrieve(rows, topk_per_type)
    /\ pc' = "rt_done"
    /\ UNCHANGED <<topk_per_type, search_queries, qi, pk_type, rows, all_hits,
                   seen_ids, rows_left, call_metric, ts_args, ts_res>>
    /\ UNCHANGED <<ctx_vars, svc_vars, aux_vars>>

NextRetrieve == RetrieveCall

SpecRetrieve == InitRetrieve /\ [][NextRetrieve]_vars

(***************************************************************************)
(* _to_score as a function of its arguments                                *)
(***************************************************************************)
\* the integers up to MaxAbsDist in absolute value, one unit in the last
\* place of 1.0 and a quarter of it
TestDistances ==
    {Float(k) : k \in -MaxAbsDist..MaxAbsDist}
        \cup {<<1, Pow2(MantissaBits - 1)>>, <<1, Pow2(MantissaBits + 1)>>}

InitScore ==
    /\ pc = "ts_call"
    /\ ts_args \in [d1 : TestDistances, d2 : TestDistances, metric : Metrics]
    /\ ts_res = <<>>
    /\ CtxIdle
    /\ SvcIdle
    /\ AuxIdle
    /\ topk_per_type = 1
    /\ search_queries = <<>>
    /\ qi = 1
    /\ pk_type = "Project"
    /\ rows = NoRows
    /\ hits = <<>>
    /\ all_hits = <<>>
    /\ seen_ids = {}
    /\ rows_left = 0
    /\ call_metric = "cosine"

ToScoreCall ==
    /\ pc = "ts_call"
    /\ ts_res' = <<_to_score(ts_args.d1, ts_args.metric),
                   _to_score(ts_args.d2, ts_args.metric)>>
    /\ pc' = "ts_done"
    /\ UNCHANGED <<topk_per_type, search_queries, qi, pk_type, rows, hits, all_hits,
                   seen_ids, rows_left, call_metric, ts_args>>
    /\ UNCHANGED <<ctx_vars, svc_vars, aux_vars>>

NextScore == ToScoreCall

SpecScore == InitScore /\ [][NextScore]_vars

(***************************************************************************)
(* _pack as a function of its arguments; call_metric is the metric of the  *)
(* similarity search that produced the rows                                *)
(***************************************************************************)
\* the objects _pack may be handed under hit_type t: for Requirement the
\* resolved rows, a Requirement or the RequirementVersion itself
PackObjects(t) ==
    IF t = "Requirement"
    THEN {RequirementInstance(r) : r \in RequirementIds}
            \cup {VersionInstance(i, None, 3) : i \in Ids}
    ELSE Objects(t)

\* cosine and l2 distances are >= 0; the inner-product distance is the
\* negated dot product and takes either sign
DistsOf(metric) ==
    IF metric = "mips" THEN {Float(k) : k \in -MaxDist..MaxDist} ELSE Dists

InitPack ==
    /\ pc = "pk_call"
    /\ call_metric \in Metrics
    /\ pk_type \in EntityTypes
    /\ topk_per_type \in 1..MaxTopK
    /\ \E rs \in SeqsUpTo([obj : PackObjects(pk_type), dist : DistsOf(call_metric)],
                          MaxRowsPerCall) :
          rows = [NoRows EXCEPT ![pk_type] = rs]
    /\ hits = <<>>
    /\ search_queries = <<>>
    /\ qi = 1
    /\ all_hits = <<>>
    /\ seen_ids = {}
    /\ rows_left = 0
    /\ ts_args = TsIdle
    /\ ts_res = <<>>
    /\ CtxIdle
    /\ SvcIdle
    /\ AuxIdle

\* an exception raised while a hit is built leaves _pack without a result
PackCall ==
    /\ pc = "pk_call"
    /\ LET out == _pack(pk_type, rows[pk_type], topk_per_type)
       IN  IF \E i \in 1..Len(out) : out[i].score = ZeroDivisionError
           THEN /\ pc' = "pk_raised"
                /\ hits' = <<>>
           ELSE /\ pc' = "pk_done"
                /\ hits' = out
    /\ UNCHANGED <<topk_per_type, search_queries, qi, pk_type, rows, all_hits,
                   seen_ids, rows_left, call_metric, ts_args, ts_res>>
    /\ UNCHANGED <<ctx_vars, svc_vars, aux_vars>>

NextPack == PackCall

SpecPack == InitPack /\ [][NextPack]_vars

(***************************************************************************)
(* augment_query: the post-processing of the generative response           *)
(* (src/rag.py lines 205-208, src/backend/rag.py lines 178-181).           *)
(*                                                                         *)
(* Here a string is the sequence of its characters.  The characters are    *)
(* the space, the dash, the bullet U+2022 ("bullet"), the two quotes, the  *)
(* newline and the letters "a" and "b".                                    *)
(***************************************************************************)
Modules == {"src/rag.py", "src/backend/rag.py"}

\* str.strip() without argument strips whitespace
Whitespace == {" ", "\n"}

\* the argument of the third strip: the bullet in src/backend/rag.py; in
\* src/rag.py the literal is the three characters U+201A, U+00C4, U+00A2
BulletLiteral(module) ==
    IF module = "src/backend/rag.py" THEN {"bullet"} ELSE {"sbquo", "Auml", "cent"}

RECURSIVE LStrip(_, _)
LStrip(s, chars) ==
    IF s # <<>> /\ Head(s) \in chars THEN LStrip(Tail(s), chars) ELSE s

RECURSIVE RStrip(_, _)
RStrip(s, chars) ==
    IF s # <<>> /\ s[Len(s)] \in chars THEN RStrip(SubSeq(s, 1, Len(s) - 1), chars) ELSE s

\* str.strip(chars)
Strip(s, chars) == RStrip(LStrip(s, chars), chars)

\* q.strip().strip('-').strip(bullet).strip().strip('"').strip("'")
PostProcess(q, module) ==
    Strip(Strip(Strip(Strip(Strip(Strip(q, Whitespace), {"-"}),
                            BulletLiteral(module)), Whitespace), {"\""}), {"'"})

\* the characters of s before the first newline
RECURSIVE FirstLine(_)
FirstLine(s) ==
    IF s = <<>> \/ Head(s) = "\n" THEN <<>> ELSE <<Head(s)>> \o FirstLine(Tail(s))

\* str.split('\n')
RECURSIVE Split(_)
Split(s) ==
    LET first == FirstLine(s)
    IN  IF Len(first) = Len(s) THEN <<first>>
        ELSE <<first>> \o Split(SubSeq(s, Len(first) + 2, Len(s)))

IsBlank(q) == Strip(q, Whitespace) = <<>>
NotBlank(q) == ~IsBlank(q)
LongEnough(q) == Len(q) > 10

\* variant: lines of exactly 10 characters are kept
KeepFromTen(q) == Len(q) >= 10

\* variant: the filter len(q) >= 10
AugmentKeepTen(text, module) ==
    LET kept == SelectSeq(Split(text), NotBlank)
        queries == [i \in 1..Len(kept) |-> PostProcess(kept[i], module)]
    IN  SelectSeq(queries, KeepFromTen)

\* lines 205-208 applied to the response content
augment_query(text, module) ==
    LET kept == SelectSeq(Split(text), NotBlank)
        queries == [i \in 1..Len(kept) |-> PostProcess(kept[i], module)]
    IN  SelectSeq(queries, LongEnough)

\* n times the character c
Repeat(c, n) == [i \in 1..n |-> c]

\* the characters the post-processing strips, as the model writes them
AffixChars == {" ", "-", "bullet", "\"", "'"}

\* a line: up to MaxAffix stripped characters, `core` letters c, and up to
\* MaxAffix - 1 stripped characters
Lines(c, cores) ==
    {pre \o Repeat(c, k) \o suf :
        pre \in SeqsUpTo(AffixChars, MaxAffix),
        suf \in SeqsUpTo(AffixChars, MaxAffix - 1),
        k \in cores}

\* what may follow the first line of a response: nothing, an empty line, a
\* line of spaces, a short line, a list item that is long enough, and a short
\* line, an empty line and a long list item
Continuations ==
    {<<>>, <<"\n">>, <<"\n", " ", " ">>, <<"\n", "-", " ", "b", "b">>,
     <<"\n", "-", " ">> \o Repeat("b", 11),
     <<"\n", "-", " ", "b", "\n", "\n", "-", " ">> \o Repeat("b", 11)}

\* the generative responses of this model: the lengths of the first line
\* are on both sides of the threshold
Responses == {first \o rest : first \in Lines("a", {0, 9, 10, 11}), rest \in Continuations}

InitAugment ==
    /\ pc = "aq_call"
    /\ rag_module \in Modules
    /\ queries_text \in Responses
    /\ search_queries = <<>>
    /\ topk_per_type = 1
    /\ qi = 1
    /\ pk_type = "Project"
    /\ rows = NoRows
    /\ hits = <<>>
    /\ all_hits = <<>>
    /\ seen_ids = {}
    /\ rows_left = 0
    /\ call_metric = "cosine"
    /\ ts_args = TsIdle
    /\ ts_res = <<>>
    /\ context = <<>>
    /\ pipeline = "search"
    /\ embed_calls = 0
    /\ search_calls = 0
    /\ invocation = 0
    /\ queries_left = 0
    /\ SvcIdle
    /\ AuxIdle

AugmentQueryCall ==
    /\ pc = "aq_call"
    /\ search_queries' = augment_query(queries_text, rag_module)
    /\ pc' = "aq_done"
    /\ UNCHANGED <<topk_per_type, qi, pk_type, rows, hits, all_hits, seen_ids,
                   rows_left, call_metric, ts_args, ts_res, rag_module,
                   queries_text, context, pipeline, embed_calls, search_calls,
                   invocation, queries_left, svc_vars, aux_vars>>

NextAugment == AugmentQueryCall

SpecAugment == InitAugment /\ [][NextAugment]_vars

(***************************************************************************)
(* _format_context.  The context is a string: here the sequence of the     *)
(* pieces it is made of, literals and rendered values, in order.           *)
(***************************************************************************)
\* the [:5] of every section
SectionCap == 5

\* d.get(k, default)
Get(d, k, default) == IF k \in DOMAIN d THEN d[k] ELSE default

\* s[:n] of a list
Take(s, n) == SubSeq(s, 1, Min(n, Len(s)))

\* f"{score:.2f}": the score in hundredths, rounded half to even
Fmt2f(score) ==
    LET n == Abs(score[1])
        d == score[2]
        q == (100 * n) \div d
        r == (100 * n) % d
        h == IF 2 * r > d \/ (2 * r = d /\ q % 2 = 1) THEN q + 1 ELSE q
    IN  <<"f2", "", IF score[1] < 0 THEN -h ELSE h, 0>>

\* the concatenation of the sequences ss holds, by halves
RECURSIVE Concat(_)
Concat(ss) ==
    IF ss = <<>> THEN <<>>
    ELSE IF Len(ss) = 1 THEN ss[1]
    ELSE LET half == Len(ss) \div 2
         IN  Concat(SubSeq(ss, 1, half)) \o Concat(SubSeq(ss, half + 1, Len(ss)))

\* f"{text[:w]}..." if len(text) > w else text, after the prefix of the line
Body(prefix, text, w) ==
    IF StrLen(text) > w THEN prefix \o <<Slice(text, w), Lit("...")>>
    ELSE prefix \o <<text>>

\* the context_parts one hit adds (lines 74-78, 84-92, 98-105, 111-113,
\* 119-121, 127-129)
DocumentParts(hit) ==
    LET doc == hit.data
    IN  << <<Lit("\n### "), Get(doc, "title", Lit("Untitled")), Lit(" ("),
             Get(doc, "type", Lit("unknown")), Lit(")")>>,
           <<Lit("Relevance: "), Fmt2f(hit.score)>>,
           Body(<<>>, Get(doc, "text", Lit("")), 500) >>

IdeaParts(hit) ==
    LET idea == hit.data
    IN  << <<Lit("\n- **"), Get(idea, "title", Lit("Untitled")), Lit("** ("),
             Get(idea, "category", Lit("uncategorized")), Lit(")")>>,
           <<Lit("  Relevance: "), Fmt2f(hit.score)>>,
           <<Lit("  Status: "), Get(idea, "status", Lit("unknown")),
             Lit(", Priority: "), Get(idea, "priority", Lit("unknown"))>>,
           <<Lit("  ICE Score: "), Get(idea, "ice_score", Lit("N/A"))>>,
           Body(<<Lit("  ")>>, Get(idea, "description", Lit("")), 200) >>

RequirementParts(hit) ==
    LET req == hit.data
    IN  << <<Lit("\n- **"), Get(req, "title", Lit("Untitled")), Lit("** ("),
             Get(req, "type", Lit("unknown")), Lit(")")>>,
           <<Lit("  Relevance: "), Fmt2f(hit.score)>>,
           Body(<<Lit("  ")>>, Get(req, "description", Lit("")), 200) >>

ProjectParts(hit) ==
    LET proj == hit.data
    IN  << <<Lit("\n- **"), Get(proj, "title", Lit("Untitled")), Lit("** (Key: "),
             Get(proj, "key", Lit("N/A")), Lit(")")>>,
           <<Lit("  Status: "), Get(proj, "project_status", Lit("unknown"))>> >>

ChangeRequestParts(hit) ==
    LET cr == hit.data
    IN  << <<Lit("\n- "), Slice(Get(cr, "summary", Lit("No summary")), 100)>>,
           <<Lit("  Status: "), Get(cr, "status", Lit("unknown"))>> >>

StakeholderParts(hit) ==
    LET proj == hit.data
    IN  << <<Lit("\n- **Name: "), Get(proj, "name", Lit("Untitled")), Lit(" "),
             Get(proj, "surname", Lit("Untitled")), Lit(")**")>>,
           <<Lit("  Role: "), Get(proj, "role", Lit("unknown"))>> >>

PartsOf(hit) ==
    CASE hit.type = "Document" -> DocumentParts(hit)
      [] hit.type = "Idea" -> IdeaParts(hit)
      [] hit.type = "Requirement" -> RequirementParts(hit)
      [] hit.type = "Project" -> ProjectParts(hit)
      [] hit.type = "Change Request" -> ChangeRequestParts(hit)
      [] hit.type = "Stakeholder" -> StakeholderParts(hit)

\* the order of the six blocks of _format_context
FormatOrder ==
    <<"Document", "Idea", "Requirement", "Project", "Change Request", "Stakeholder">>

HeaderOf(t) ==
    CASE t = "Document" -> Lit("## Relevant Documents:")
      [] t = "Idea" -> Lit("\n\n## Existing Ideas:")
      [] t = "Requirement" -> Lit("\n\n## Related Requirements:")
      [] t = "Project" -> Lit("\n\n## Related Projects:")
      [] t = "Change Request" -> Lit("\n\n## Recent Change Requests:")
      [] t = "Stakeholder" -> Lit("\n\n## Related Stakeholders:")

\* by_type[t]
ByType(hs, t) ==
    LET of_type(h) == h.type = t
    IN  SelectSeq(hs, of_type)

\* variant: the block without the [:5]
SectionUncapped(hs, t) ==
    LET group == ByType(hs, t)
    IN  IF group = <<>> THEN <<>>
        ELSE << <<HeaderOf(t)>> >> \o Concat([i \in 1..Len(group) |-> PartsOf(group[i])])

\* the context_parts of the block of type t: nothing when t is not in by_type
Section(hs, t) ==
    LET group == Take(ByType(hs, t), SectionCap)
    IN  IF group = <<>> THEN <<>>
        ELSE << <<HeaderOf(t)>> >> \o Concat([i \in 1..Len(group) |-> PartsOf(group[i])])

\* variant: the blocks in the order in which retrieve calls the sources
ContextPartsSourceOrder(hs) == Concat([k \in 1..Len(SourceOrder) |-> Section(hs, SourceOrder[k])])

ContextParts(hs) == Concat([k \in 1..Len(FormatOrder) |-> Section(hs, FormatOrder[k])])

\* "\n".join(parts)
Join(parts) ==
    Concat([k \in 1..(2 * Len(parts) - 1) |->
               IF k % 2 = 1 THEN parts[(k + 1) \div 2] ELSE <<Lit("\n")>>])

Sentinel == <<Lit("No relevant context found.")>>

\* variant: the empty string when there is nothing to render
FormatNoSentinel(hs) == Join(ContextParts(hs))

\* Python's None as the value of a column
PyNone == <<"None", "", 0, 0>>

\* the outcome of a call that raised TypeError, in the place of the string
TypeError == << <<"TypeError", "", 0, 0>> >>

\* the column whose text is measured and cut
BodyColumn(t) ==
    CASE t = "Document" -> "text"
      [] t \in {"Idea", "Requirement"} -> "description"
      [] t = "Change Request" -> "summary"

\* len(text) and cr.get('summary', ...)[:100] raise TypeError when the
\* snapshot of a hit that is rendered holds None in that column
RaisesTypeError(hs) ==
    \E t \in {"Document", "Idea", "Requirement", "Change Request"} :
        \E group \in {Take(ByType(hs, t), SectionCap)} :
            \E i \in 1..Len(group) :
                Get(group[i].data, BodyColumn(t), Lit("")) = PyNone

_format_context(hs) ==
    LET context_parts == ContextParts(hs)
    IN  IF RaisesTypeError(hs) THEN TypeError
        ELSE IF context_parts # <<>> THEN Join(context_parts) ELSE Sentinel

(***************************************************************************)
(* _format_context as a function of its argument                           *)
(***************************************************************************)
\* the width at which the body text of a hit of type t is cut
BodyWidth(t) ==
    CASE t = "Document" -> 500
      [] t \in {"Idea", "Requirement"} -> 200
      [] t = "Change Request" -> 100
      [] OTHER -> 0

\* a hit list may hold one hit more than a section renders
MaxFormatHits == SectionCap + 1

\* the hit at position i of the argument: of type t, its body text delta
\* characters longer than the width of the type; a Requirement hit carries
\* the snapshot of a version
FormatHit(t, i, delta) ==
    [type |-> t, id |-> i,
     distance |-> Float(i % (MaxDist + 1)),
     score |-> _to_score(Float(i % (MaxDist + 1)), "cosine"),
     data |-> Snapshot(IF t = "Requirement"
                       THEN VersionInstance(i, None, BodyWidth(t) + delta)
                       ELSE Instance(t, i, BodyWidth(t) + delta))]

\* long lists have body texts of exactly the width, lists of up to
\* MaxBodyHits hits have texts one character shorter or longer as well
InitFormat ==
    /\ pc = "fc_call"
    /\ \E ts \in SeqsUpTo(EntityTypes, MaxFormatHits) :
       \E delta \in {-1, 0, 1} :
          /\ Len(ts) > MaxBodyHits => delta = 0
          /\ hits = [i \in 1..Len(ts) |-> FormatHit(ts[i], i, delta)]
    /\ context = <<>>
    /\ search_queries = <<>>
    /\ topk_per_type = 1
    /\ qi = 1
    /\ pk_type = "Project"
    /\ rows = NoRows
    /\ all_hits = <<>>
    /\ seen_ids = {}
    /\ rows_left = 0
    /\ call_metric = "cosine"
    /\ ts_args = TsIdle
    /\ ts_res = <<>>
    /\ rag_module = "src/rag.py"
    /\ queries_text = <<>>
    /\ pipeline = "search"
    /\ embed_calls = 0
    /\ search_calls = 0
    /\ invocation = 0
    /\ queries_left = 0
    /\ SvcIdle
    /\ AuxIdle

\* variant: the call stores the cut body texts back into the hits
FormatContextCallInPlace ==
    /\ pc = "fc_call"
    /\ context' = _format_context(hits)
    /\ hits' = [i \in 1..Len(hits) |->
                  IF hits[i].type \in {"Document", "Idea", "Requirement", "Change Request"}
                  THEN [hits[i] EXCEPT !.data[BodyColumn(hits[i].type)] =
                                           Slice(@, BodyWidth(hits[i].type) - 1)]
                  ELSE hits[i]]
    /\ pc' = "fc_done"
    /\ UNCHANGED <<topk_per_type, search_queries, qi, pk_type, rows, all_hits,
                   seen_ids, rows_left, call_metric, ts_args, ts_res, rag_module,
                   queries_text, pipeline, embed_calls, search_calls, invocation,
                   queries_left, svc_vars, aux_vars>>

FormatContextCall ==
    /\ pc = "fc_call"
    /\ context' = _format_context(hits)
    /\ pc' = "fc_done"
    /\ UNCHANGED <<topk_per_type, search_queries, qi, pk_type, rows, hits, all_hits,
                   seen_ids, rows_left, call_metric, ts_args, ts_res, rag_module,
                   queries_text, pipeline, embed_calls, search_calls, invocation,
                   queries_left, svc_vars, aux_vars>>

\* _format_context is called a second time with the same list object
FormatContextAgain ==
    /\ pc = "fc_done"
    /\ context' = _format_context(hits)
    /\ pc' = "fc_again"
    /\ UNCHANGED <<topk_per_type, search_queries, qi, pk_type, rows, hits, all_hits,
                   seen_ids, rows_left, call_metric, ts_args, ts_res, rag_module,
                   queries_text, pipeline, embed_calls, search_calls, invocation,
                   queries_left, svc_vars, aux_vars>>

NextFormat ==
    \/ FormatContextCall
    \/ FormatContextAgain

SpecFormat == InitFormat /\ [][NextFormat]_vars

(***************************************************************************)
(* The pipelines with their own limits: search (lines 210-258),            *)
(* generate_ideas (260-372), generate_requirements (374-498) and           *)
(* generate_change_request (500-640).  The service is called again and     *)
(* again; the locals of an invocation keep their last values after it      *)
(* returned and are set anew by the next one.                              *)
(***************************************************************************)
Pipelines ==
    {"search", "generate_ideas", "generate_requirements", "generate_change_request"}

\* the default of topk_per_type / topk_per_query, which main.py never overrides
TopkOf(p) == IF p = "search" THEN 5 ELSE 10

\* variant: the caps of search and of the generate pipelines exchanged
CapSwapped(p) == IF p = "search" THEN 30 ELSE 20

\* the N of all_hits[:N]
CapOf(p) == IF p = "search" THEN 20 ELSE 30

\* the for-loop over the queries as a function of what retrieve returned for
\* each query, and the sort that follows it
RECURSIVE MergeAll(_, _, _)
MergeAll(acc, seen, results) ==
    IF results = <<>> THEN acc
    ELSE LET m == Merge(acc, seen, Head(results))
         IN  MergeAll(m[1], m[2], Tail(results))

Aggregate(results) == SortByScoreDesc(MergeAll(<<>>, {}, results))

SourceIndex(t) == CHOOSE j \in 1..Len(SourceOrder) : SourceOrder[j] = t

\* what the sources answer a retrieve call with in this specification: each
\* its k nearest records, k at most the limit, all at one distance that
\* depends on the source and on the query (o)
StoredRows(k, o) ==
    [t \in EntityTypes |->
        [i \in 1..k |->
            [obj |-> IF t = "Requirement" THEN VersionInstance(i, -i, 3)
                     ELSE Instance(t, i, 3),
             dist |-> Float((SourceIndex(t) + o) % (MaxDist + 1))]]]

\* the calls of one retrieve call: the embedding, then the six searches
RetrieveCalls == <<"embed_query">> \o SourceOrder

RECURSIVE Repeated(_, _)
Repeated(s, n) == IF n = 0 THEN <<>> ELSE s \o Repeated(s, n - 1)

\* generate_ideas of src/rag.py embeds the text of each idea the generation
\* extracted (lines 367-370): whether the invocation is such a one
EmbedsIdeas == pipeline = "generate_ideas" /\ rag_module = "src/rag.py"

InitPipeline ==
    /\ pc = "p_idle"
    /\ rag_module \in Modules
    /\ pipeline = "search"
    /\ invocation = 0
    /\ queries_left = MaxQueries
    /\ topk_per_type = TopkOf("search")
    /\ search_queries = <<>>
    /\ qi = 1
    /\ rows = NoRows
    /\ hits = <<>>
    /\ all_hits = <<>>
    /\ seen_ids = {}
    /\ context = <<>>
    /\ embed_calls = 0
    /\ search_calls = 0
    /\ queries_text = <<>>
    /\ pk_type = "Project"
    /\ rows_left = 0
    /\ call_metric = "cosine"
    /\ ts_args = TsIdle
    /\ ts_res = <<>>
    /\ SvcIdle
    /\ AuxIdle

\* variant: all_hits and seen_ids are not set anew
PipelineCallStale ==
    /\ pc = "p_idle"
    /\ invocation < MaxInvocations
    /\ \E p \in Pipelines, n \in 0..queries_left :
          /\ pipeline' = p
          /\ topk_per_type' = TopkOf(p)
          /\ search_queries' = [i \in 1..n |-> i]
          /\ queries_left' = queries_left - n
    /\ invocation' = invocation + 1
    /\ qi' = 1
    /\ rows' = NoRows
    /\ hits' = <<>>
    /\ context' = <<>>
    /\ embed_calls' = 0
    /\ search_calls' = 0
    /\ calls' = <<"augment_query">>
    /\ outcome' = "none"
    /\ pc' = "p_loop"
    /\ UNCHANGED <<all_hits, seen_ids, pk_type, rows_left, call_metric, ts_args,
                   ts_res, rag_module, queries_text, aux_vars>>

\* a pipeline method is called: augment_query returns n queries, all_hits = []
\* and seen_ids = set()
PipelineCall ==
    /\ pc = "p_idle"
    /\ invocation < MaxInvocations
    /\ \E p \in Pipelines, n \in 0..queries_left :
          /\ pipeline' = p
          /\ topk_per_type' = TopkOf(p)
          /\ search_queries' = [i \in 1..n |-> i]
          /\ queries_left' = queries_left - n
    /\ invocation' = invocation + 1
    /\ all_hits' = <<>>
    /\ seen_ids' = {}
    /\ qi' = 1
    /\ rows' = NoRows
    /\ hits' = <<>>
    /\ context' = <<>>
    /\ embed_calls' = 0
    /\ search_calls' = 0
    /\ calls' = <<"augment_query">>
    /\ outcome' = "none"
    /\ pc' = "p_loop"
    /\ UNCHANGED <<pk_type, rows_left, call_metric, ts_args, ts_res, rag_module,
                   queries_text, aux_vars>>

\* a pipeline method is called and the generative call of augment_query
\* raises: nothing of the method has run yet, the exception leaves it
PipelineExpansionRaises ==
    /\ pc = "p_idle"
    /\ invocation < MaxInvocations
    /\ \E p \in Pipelines :
          /\ pipeline' = p
          /\ topk_per_type' = TopkOf(p)
    /\ invocation' = invocation + 1
    /\ embed_calls' = 0
    /\ search_calls' = 0
    /\ calls' = <<"augment_query">>
    /\ outcome' = "raised"
    /\ pc' = "p_raised"
    /\ UNCHANGED <<search_queries, qi, rows, hits, all_hits, seen_ids, context,
                   queries_left, pk_type, rows_left, call_metric, ts_args, ts_res,
                   rag_module, queries_text, aux_vars>>

\* one pass of the for-loop: retrieve embeds the query, asks the six sources
\* and returns; the hits are merged
PipelineRetrieve ==
    /\ pc = "p_loop"
    /\ qi <= Len(search_queries)
    /\ \E k \in {0, 1, topk_per_type}, o \in {0, 1} : rows' = StoredRows(k, o)
    /\ embed_calls' = embed_calls + 1
    /\ search_calls' = search_calls + Len(SourceOrder)
    /\ calls' = calls \o RetrieveCalls
    /\ hits' = retrieve(rows', topk_per_type)
    /\ LET merged == Merge(all_hits, seen_ids, hits')
       IN  /\ all_hits' = merged[1]
           /\ seen_ids' = merged[2]
    /\ qi' = qi + 1
    /\ UNCHANGED <<pc, topk_per_type, search_queries, pk_type, rows_left, call_metric,
                   ts_args, ts_res, rag_module, queries_text, context, pipeline,
                   invocation, queries_left, outcome, aux_vars>>

\* variant: a retrieve call that raised is skipped and the loop goes on
PipelineRetrieveSkipped ==
    /\ pc = "p_loop"
    /\ qi <= Len(search_queries)
    /\ \E made \in 1..Len(RetrieveCalls) :
          /\ embed_calls' = embed_calls + 1
          /\ search_calls' = search_calls + (made - 1)
          /\ calls' = calls \o SubSeq(RetrieveCalls, 1, made)
    /\ qi' = qi + 1
    /\ UNCHANGED <<pc, topk_per_type, search_queries, pk_type, rows, hits, all_hits,
                   seen_ids, rows_left, call_metric, ts_args, ts_res, rag_module,
                   queries_text, context, pipeline, invocation, queries_left,
                   outcome, aux_vars>>

\* one pass of the for-loop in which the embedding call or one of the six
\* searches raises: `made` calls were made, the last of them raised, and
\* the exception leaves retrieve and the pipeline method
PipelineRetrieveRaises ==
    /\ pc = "p_loop"
    /\ qi <= Len(search_queries)
    /\ \E made \in 1..Len(RetrieveCalls) :
          /\ embed_calls' = embed_calls + 1
          /\ search_calls' = search_calls + (made - 1)
          /\ calls' = calls \o SubSeq(RetrieveCalls, 1, made)
    /\ outcome' = "raised"
    /\ pc' = "p_raised"
    /\ UNCHANGED <<topk_per_type, search_queries, qi, pk_type, rows, hits, all_hits,
                   seen_ids, rows_left, call_metric, ts_args, ts_res, rag_module,
                   queries_text, context, pipeline, invocation, queries_left,
                   aux_vars>>

\* after the loop: the sort and _format_context(all_hits[:N])
PipelineFormat ==
    /\ pc = "p_loop"
    /\ qi > Len(search_queries)
    /\ all_hits' = SortByScoreDesc(all_hits)
    /\ context' = _format_context(Take(all_hits', CapOf(pipeline)))
    /\ pc' = "p_generate"
    /\ UNCHANGED <<topk_per_type, search_queries, qi, pk_type, rows, hits, seen_ids,
                   rows_left, call_metric, ts_args, ts_res, rag_module, queries_text,
                   pipeline, embed_calls, search_calls, invocation, queries_left,
                   svc_vars, aux_vars>>

\* the generation call; generate_ideas of src/rag.py then embeds the text of
\* each of the g ideas extracted (lines 367-370)
PipelineGenerate ==
    /\ pc = "p_generate"
    /\ \E g \in 0..MaxIdeas :
          /\ embed_calls' = embed_calls + (IF EmbedsIdeas THEN g ELSE 0)
          /\ calls' = calls \o <<"generate">> \o
                      (IF EmbedsIdeas THEN Repeated(<<"embed_query">>, g) ELSE <<>>)
    /\ outcome' = "returned"
    /\ pc' = "p_done"
    /\ UNCHANGED <<topk_per_type, search_queries, qi, pk_type, rows, hits, all_hits,
                   seen_ids, rows_left, call_metric, ts_args, ts_res, rag_module,
                   queries_text, context, pipeline, search_calls, invocation,
                   queries_left, aux_vars>>

\* the generation call raises, or (generate_ideas of src/rag.py) the
\* embedding of one of the extracted ideas does, after e - 1 that did not
PipelineGenerateRaises ==
    /\ pc = "p_generate"
    /\ \E e \in 0..MaxIdeas :
          /\ e > 0 => EmbedsIdeas
          /\ embed_calls' = embed_calls + e
          /\ calls' = calls \o <<"generate">> \o Repeated(<<"embed_query">>, e)
    /\ outcome' = "raised"
    /\ pc' = "p_raised"
    /\ UNCHANGED <<topk_per_type, search_queries, qi, pk_type, rows, hits, all_hits,
                   seen_ids, rows_left, call_metric, ts_args, ts_res, rag_module,
                   queries_text, context, pipeline, search_calls, invocation,
                   queries_left, aux_vars>>

\* the caller has the result or the exception
PipelineReturn ==
    /\ pc \in {"p_done", "p_raised"}
    /\ pc' = "p_idle"
    /\ UNCHANGED <<topk_per_type, search_queries, qi, pk_type, rows, hits, all_hits,
                   seen_ids, rows_left, call_metric, ts_args, ts_res, ctx_vars,
                   svc_vars, aux_vars>>

NextPipeline ==
    \/ PipelineCall
    \/ PipelineExpansionRaises
    \/ PipelineRetrieve
    \/ PipelineRetrieveRaises
    \/ PipelineFormat
    \/ PipelineGenerate
    \/ PipelineGenerateRaises
    \/ PipelineReturn

SpecPipeline == InitPipeline /\ [][NextPipeline]_vars

(***************************************************************************)
(* Outside the pipelines: rag.py is idle                                   *)
(***************************************************************************)
rag_vars == <<topk_per_type, search_queries, qi, pk_type, rows, hits, all_hits,
              seen_ids, rows_left, call_metric, ts_args, ts_res, ctx_vars, svc_vars>>

RagIdle ==
    /\ topk_per_type = 1
    /\ search_queries = <<>>
    /\ qi = 1
    /\ pk_type = "Project"
    /\ rows = NoRows
    /\ hits = <<>>
    /\ all_hits = <<>>
    /\ seen_ids = {}
    /\ rows_left = 0
    /\ call_metric = "cosine"
    /\ ts_args = TsIdle
    /\ ts_res = <<>>
    /\ CtxIdle
    /\ SvcIdle

(***************************************************************************)
(* Enum conversions (src/backend): the type validators of DocumentBase and *)
(* RequirementVersionBase (schemas.py) and FlexibleEnum (models.py).       *)
(* A value is a pair <<kind, text>>: a str, a member of an enum class      *)
(* (kind = the class), None, or the ValueError of the enum constructor.    *)
(***************************************************************************)
EnumStr(s) == <<"str", s>>
Member(cls, s) == <<cls, s>>
EnumNone == <<"None", "">>
ValueError(s) == <<"ValueError", s>>

EnumClasses == {"DocumentType", "RequirementType"}

\* the values of the members of the enum classes
MemberValues(cls) ==
    IF cls = "DocumentType"
    THEN {"PLANNING_DOCUMENTS", "REQUIREMENTS_DOCUMENTS", "DESIGN_DOCUMENTS",
          "TECHNICAL_DOCUMENTS", "TESTING_DOCUMENTS", "MANAGEMENT_REPORTS",
          "MEETING_NOTES", "CONTRACT_DOCUMENTS", "USER_GUIDES", "RELEASE_NOTES"}
    ELSE {"BUSINESS", "STAKEHOLDER", "FUNCTIONAL", "NON_FUNCTIONAL", "SYSTEM",
          "TRANSITION", "INTERFACE", "USER", "REGULATORY", "OPERATIONAL", "SECURITY",
          "PERFORMANCE"}

\* enum_class(value): the member of that value, or ValueError
EnumOf(cls, s) == IF s \in MemberValues(cls) THEN Member(cls, s) ELSE ValueError(s)

\* the old_to_new tables and the CONSTRAINT branch
LegacyKeys(cls) ==
    IF cls = "DocumentType" THEN {"SPECIFICATION", "EMAIL", "REPORT", "OTHER"}
    ELSE {"CONSTRAINT"}

old_to_new(cls, s) ==
    CASE cls = "DocumentType" /\ s = "SPECIFICATION" -> Member(cls, "REQUIREMENTS_DOCUMENTS")
      [] cls = "DocumentType" /\ s = "EMAIL" -> Member(cls, "MEETING_NOTES")
      [] cls = "DocumentType" /\ s = "REPORT" -> Member(cls, "MANAGEMENT_REPORTS")
      [] cls = "DocumentType" /\ s = "OTHER" -> Member(cls, "TECHNICAL_DOCUMENTS")
      [] cls = "RequirementType" /\ s = "CONSTRAINT" -> Member(cls, "FUNCTIONAL")

\* the default_value the columns are declared with (models.py 186, 271)
default_value(cls) ==
    IF cls = "DocumentType" THEN Member(cls, "MEETING_NOTES")
    ELSE Member(cls, "FUNCTIONAL")

\* DocumentBase.validate_type (cls = DocumentType) and
\* RequirementVersionBase.validate_type (cls = RequirementType)
validate_type(cls, v) ==
    IF v[1] = "str"
    THEN IF EnumOf(cls, v[2])[1] # "ValueError" THEN EnumOf(cls, v[2])
         ELSE IF v[2] \in LegacyKeys(cls) THEN old_to_new(cls, v[2])
         ELSE IF cls = "DocumentType" THEN Member(cls, "MEETING_NOTES")
         ELSE Member(cls, "FUNCTIONAL")
    ELSE v

\* FlexibleEnum.process_bind_param: the text written to the column
process_bind_param(cls, value) ==
    IF value = EnumNone THEN EnumNone
    ELSE IF value[1] = cls THEN EnumStr(value[2])
    ELSE IF value[1] = "str"
         THEN IF EnumOf(cls, value[2])[1] # "ValueError" THEN EnumStr(value[2])
              ELSE EnumStr(default_value(cls)[2])
    ELSE EnumStr(value[2])

\* FlexibleEnum.process_result_value: the member read from the column
process_result_value(cls, value) ==
    IF value = EnumNone THEN EnumNone
    ELSE IF value[1] = cls THEN value
    ELSE IF EnumOf(cls, value[2])[1] # "ValueError" THEN EnumOf(cls, value[2])
    ELSE IF value[2] \in LegacyKeys(cls) THEN old_to_new(cls, value[2])
    ELSE default_value(cls)

EnumOps == {"validate_type", "process_bind_param", "process_result_value"}

\* strings that are neither a member value nor a legacy key of any class
UnknownTexts == {"", "FOO", "functional", "Meeting Notes"}

EnumInputs ==
    {EnumNone}
    \cup {EnumStr(s) : s \in MemberValues("DocumentType") \cup MemberValues("RequirementType")}
    \cup {EnumStr(s) : s \in LegacyKeys("DocumentType") \cup LegacyKeys("RequirementType")}
    \cup {EnumStr(s) : s \in UnknownTexts}
    \cup {Member(cls, s) : cls \in EnumClasses, s \in {"MEETING_NOTES", "FUNCTIONAL"}}

Convert(op, cls, value) ==
    CASE op = "validate_type" -> validate_type(cls, value)
      [] op = "process_bind_param" -> process_bind_param(cls, value)
      [] op = "process_result_value" -> process_result_value(cls, value)

InitEnum ==
    /\ pc = "en_call"
    /\ enum_args \in [op : EnumOps, enum_class : EnumClasses, value : EnumInputs]
    \* a member is a member of its own class
    /\ enum_args.value[1] \in EnumClasses => enum_args.value[2] \in MemberValues(enum_args.value[1])
    \* the column holds text, and the bind parameter is no member of another class
    /\ enum_args.op = "process_result_value" => enum_args.value[1] \in {"str", "None"}
    /\ enum_args.op = "process_bind_param" => enum_args.value[1] \in {"str", "None", enum_args.enum_class}
    /\ enum_res = <<>>
    /\ RagIdle
    /\ invocations = <<>>
    /\ session = <<>>
    /\ _db_instance = 0
    /\ managers = 0
    /\ threads = <<>>

EnumCall ==
    /\ pc = "en_call"
    /\ enum_res' = Convert(enum_args.op, enum_args.enum_class, enum_args.value)
    /\ pc' = "en_done"
    /\ UNCHANGED <<rag_vars, enum_args, invocations, session, _db_instance, managers,
                   threads>>

NextEnum == EnumCall

SpecEnum == InitEnum /\ [][NextEnum]_vars

(***************************************************************************)
(* retrieve followed by _format_context of its result, with records whose  *)
(* nullable columns hold None (src/backend/models.py: Document.text 188,   *)
(* Idea.description 208, RequirementVersion.description 267)               *)
(***************************************************************************)
NullableBody == {"Document", "Idea", "Requirement"}

\* the record of type t with key 1, its body column None when null is TRUE;
\* r is the requirement a version belongs to, or None
StoredObject(t, null, r) ==
    LET obj == IF t = "Requirement" THEN VersionInstance(1, r, 3) ELSE Instance(t, 1, 3)
    IN  IF null THEN [obj EXCEPT ![BodyColumn(t)] = PyNone] ELSE obj

\* what the source of type t may answer with: nothing, or one record
NullableAnswers(t) ==
    {<<>>} \cup
    {<<[obj |-> StoredObject(t, null, r), dist |-> d]>> :
        null \in IF t \in NullableBody THEN BOOLEAN ELSE {FALSE},
        r \in IF t = "Requirement" THEN {-1, None} ELSE {None},
        d \in {Float(0), Float(1)}}

InitRetrieveFormat ==
    /\ pc = "rt_call"
    /\ topk_per_type = 1
    /\ \E r1 \in NullableAnswers("Project") :
       \E r2 \in NullableAnswers("Document") :
       \E r3 \in NullableAnswers("Idea") :
       \E r4 \in NullableAnswers("Change Request") :
       \E r5 \in NullableAnswers("Stakeholder") :
       \E r6 \in NullableAnswers("Requirement") :
          /\ Len(r1) + Len(r2) + Len(r3) + Len(r4) + Len(r5) + Len(r6) <= MaxRowsTotal
          /\ rows = [t \in EntityTypes |->
                        CASE t = "Project" -> r1
                          [] t = "Document" -> r2
                          [] t = "Idea" -> r3
                          [] t = "Change Request" -> r4
                          [] t = "Stakeholder" -> r5
                          [] t = "Requirement" -> r6]
    /\ hits = <<>>
    /\ search_queries = <<>>
    /\ qi = 1
    /\ pk_type = "Project"
    /\ all_hits = <<>>
    /\ seen_ids = {}
    /\ rows_left = 0
    /\ call_metric = "cosine"
    /\ ts_args = TsIdle
    /\ ts_res = <<>>
    /\ CtxIdle
    /\ SvcIdle
    /\ AuxIdle

\* the result of retrieve is formatted
FormatRetrieved ==
    /\ pc = "rt_done"
    /\ context' = _format_context(hits)
    /\ pc' = "fc_done"
    /\ UNCHANGED <<topk_per_type, search_queries, qi, pk_type, rows, hits, all_hits,
                   seen_ids, rows_left, call_metric, ts_args, ts_res, rag_module,
                   queries_text, pipeline, embed_calls, search_calls, invocation,
                   queries_left, svc_vars, aux_vars>>

NextRetrieveFormat ==
    \/ RetrieveCall
    \/ FormatRetrieved

SpecRetrieveFormat == InitRetrieveFormat /\ [][NextRetrieveFormat]_vars

(***************************************************************************)
(* Two pipeline invocations in flight at once (search, lines 214-230;      *)
(* generate_ideas, lines 272-291): all_hits and seen_ids are locals of the *)
(* call, so every invocation holds its own pair; results is the list of    *)
(* the hit lists retrieve returned to the invocation so far.  The sources  *)
(* are only read.                                                          *)
(***************************************************************************)
InvocationIds == {1, 2}

\* what the sources may answer to one query: nothing, the first Project,
\* the first Project at another distance, or the first Project and Document
QueryAnswers ==
    {[t \in EntityTypes |-> IF t \in ts THEN StoredRows(1, o)[t] ELSE <<>>] :
        ts \in {{}, {"Project"}, {"Project", "Document"}}, o \in {0, 1}}

\* all_hits = []; seen_ids = set() of a call that has not retrieved yet
NewInvocation == [pc |-> "loop", results |-> <<>>, all_hits |-> <<>>, seen_ids |-> {}]

InitInterleave ==
    /\ pc = "il_run"
    /\ invocations = [i \in InvocationIds |-> NewInvocation]
    /\ RagIdle
    /\ enum_args = <<>>
    /\ enum_res = <<>>
    /\ session = <<>>
    /\ _db_instance = 0
    /\ managers = 0
    /\ threads = <<>>

\* variant: one seen-set shared by the invocations in flight
InterleaveRetrieveShared(i) ==
    /\ invocations[i].pc = "loop"
    /\ Len(invocations[i].results) < MaxQueries
    /\ \E answers \in QueryAnswers :
          LET found == retrieve(answers, topk_per_type)
              shared == UNION {invocations[j].seen_ids : j \in InvocationIds}
              merged == Merge(invocations[i].all_hits, shared, found)
          IN  invocations' = [invocations EXCEPT
                                 ![i].results = Append(@, found),
                                 ![i].all_hits = merged[1],
                                 ![i].seen_ids = merged[2]]
    /\ UNCHANGED <<pc, rag_vars, enum_args, enum_res, session, _db_instance,
                   managers, threads>>

\* one iteration of the loop of invocation i: hits = self.retrieve(sq, ...),
\* then the merge into the invocation's own all_hits and seen_ids
InterleaveRetrieve(i) ==
    /\ invocations[i].pc = "loop"
    /\ Len(invocations[i].results) < MaxQueries
    /\ \E answers \in QueryAnswers :
          LET found == retrieve(answers, topk_per_type)
              merged == Merge(invocations[i].all_hits, invocations[i].seen_ids, found)
          IN  invocations' = [invocations EXCEPT
                                 ![i].results = Append(@, found),
                                 ![i].all_hits = merged[1],
                                 ![i].seen_ids = merged[2]]
    /\ UNCHANGED <<pc, rag_vars, enum_args, enum_res, session, _db_instance,
                   managers, threads>>

\* the loop of invocation i is over: all_hits.sort(key=score, reverse=True)
InterleaveSort(i) ==
    /\ invocations[i].pc = "loop"
    /\ invocations' = [invocations EXCEPT
                          ![i].pc = "done",
                          ![i].all_hits = SortByScoreDesc(@)]
    /\ UNCHANGED <<pc, rag_vars, enum_args, enum_res, session, _db_instance,
                   managers, threads>>

NextInterleave ==
    \/ \E i \in InvocationIds : InterleaveRetrieve(i)
    \/ \E i \in InvocationIds : InterleaveSort(i)

SpecInterleave == InitInterleave /\ [][NextInterleave]_vars

(***************************************************************************)
(* DatabaseManager.session_scope (src/database.py, lines 104-123;          *)
(* src/backend/database.py, lines 86-97), entered through a with           *)
(* statement (get_db of main.py, lines 64-66).  Every request opens its    *)
(* own session.  An exception is a pair <<origin, class>>: origin is the   *)
(* operation that raised it; class "Exception" stands for the subclasses   *)
(* of Exception, "BaseException" for the others (KeyboardInterrupt,        *)
(* SystemExit, GeneratorExit).                                             *)
(***************************************************************************)
SessionIds == {1, 2}

ExceptionClasses == {"Exception", "BaseException"}

NoException == <<"none", "none">>

\* session = self.session_factory(), the generator suspended at the yield:
\* calls is the list of the session methods called, raised the exceptions
\* raised so far, exc the exception in flight
NewSession ==
    [pc |-> "body", calls |-> <<>>, raised |-> <<>>, exc |-> NoException]

InitSession ==
    /\ pc = "ss_run"
    /\ session = [s \in SessionIds |-> NewSession]
    /\ RagIdle
    /\ invocations = <<>>
    /\ enum_args = <<>>
    /\ enum_res = <<>>
    /\ _db_instance = 0
    /\ managers = 0
    /\ threads = <<>>

\* where an exception of class c raised inside the try block goes:
\* `except Exception` takes the subclasses of Exception only
Handler(c) == IF c = "Exception" THEN "except" ELSE "finally"

\* the body of the with statement completes: the generator resumes after
\* the yield
BodyCompletes(s) ==
    /\ session[s].pc = "body"
    /\ session' = [session EXCEPT ![s].pc = "commit"]
    /\ UNCHANGED <<pc, rag_vars, invocations, enum_args, enum_res, _db_instance,
                   managers, threads>>

\* the body raises (or the suspended generator is closed): the exception is
\* thrown into the generator at the yield
BodyRaises(s) ==
    /\ session[s].pc = "body"
    /\ \E c \in ExceptionClasses :
          session' = [session EXCEPT ![s].pc = Handler(c),
                                     ![s].raised = Append(@, <<"body", c>>),
                                     ![s].exc = <<"body", c>>]
    /\ UNCHANGED <<pc, rag_vars, invocations, enum_args, enum_res, _db_instance,
                   managers, threads>>

\* session.commit() returns
Commit(s) ==
    /\ session[s].pc = "commit"
    /\ session' = [session EXCEPT ![s].pc = "finally",
                                  ![s].calls = Append(@, "commit")]
    /\ UNCHANGED <<pc, rag_vars, invocations, enum_args, enum_res, _db_instance,
                   managers, threads>>

\* session.commit() raises
CommitRaises(s) ==
    /\ session[s].pc = "commit"
    /\ \E c \in ExceptionClasses :
          session' = [session EXCEPT ![s].pc = Handler(c),
                                     ![s].calls = Append(@, "commit"),
                                     ![s].raised = Append(@, <<"commit", c>>),
                                     ![s].exc = <<"commit", c>>]
    /\ UNCHANGED <<pc, rag_vars, invocations, enum_args, enum_res, _db_instance,
                   managers, threads>>

\* variant: the handler rolls back and swallows the exception
RollbackSwallows(s) ==
    /\ session[s].pc = "except"
    /\ session' = [session EXCEPT ![s].pc = "finally",
                                  ![s].calls = Append(@, "rollback"),
                                  ![s].exc = NoException]
    /\ UNCHANGED <<pc, rag_vars, invocations, enum_args, enum_res, _db_instance,
                   managers, threads>>

\* except Exception: session.rollback() returns, the error is logged, and
\* `raise` re-raises the exception caught
Rollback(s) ==
    /\ session[s].pc = "except"
    /\ session' = [session EXCEPT ![s].pc = "finally",
                                  ![s].calls = Append(@, "rollback")]
    /\ UNCHANGED <<pc, rag_vars, invocations, enum_args, enum_res, _db_instance,
                   managers, threads>>

\* session.rollback() raises inside the handler: its exception replaces the
\* one being handled
RollbackRaises(s) ==
    /\ session[s].pc = "except"
    /\ \E c \in ExceptionClasses :
          session' = [session EXCEPT ![s].pc = "finally",
                                     ![s].calls = Append(@, "rollback"),
                                     ![s].raised = Append(@, <<"rollback", c>>),
                                     ![s].exc = <<"rollback", c>>]
    /\ UNCHANGED <<pc, rag_vars, invocations, enum_args, enum_res, _db_instance,
                   managers, threads>>

\* finally: session.close() returns; the exception in flight, if any, leaves
\* the with statement
Close(s) ==
    /\ session[s].pc = "finally"
    /\ session' = [session EXCEPT ![s].pc = "exit",
                                  ![s].calls = Append(@, "close")]
    /\ UNCHANGED <<pc, rag_vars, invocations, enum_args, enum_res, _db_instance,
                   managers, threads>>

\* session.close() raises: its exception replaces the one in flight
CloseRaises(s) ==
    /\ session[s].pc = "finally"
    /\ \E c \in ExceptionClasses :
          session' = [session EXCEPT ![s].pc = "exit",
                                     ![s].calls = Append(@, "close"),
                                     ![s].raised = Append(@, <<"close", c>>),
                                     ![s].exc = <<"close", c>>]
    /\ UNCHANGED <<pc, rag_vars, invocations, enum_args, enum_res, _db_instance,
                   managers, threads>>

NextSession ==
    \/ \E s \in SessionIds : BodyCompletes(s)
    \/ \E s \in SessionIds : BodyRaises(s)
    \/ \E s \in SessionIds : Commit(s)
    \/ \E s \in SessionIds : CommitRaises(s)
    \/ \E s \in SessionIds : Rollback(s)
    \/ \E s \in SessionIds : RollbackRaises(s)
    \/ \E s \in SessionIds : Close(s)
    \/ \E s \in SessionIds : CloseRaises(s)

SpecSession == InitSession /\ [][NextSession]_vars

(***************************************************************************)
(* get_db (src/database.py, lines 215-228; src/backend/database.py, lines  *)
(* 158-166): the module global _db_instance (0 is None, n > 0 the n-th     *)
(* DatabaseManager constructed) and the threads calling get_db.  No lock   *)
(* is taken; a thread may be preempted between any two statements.         *)
(***************************************************************************)
ThreadIds == 1..MaxThreads

\* a thread outside get_db: made is the manager its constructor call
\* returned, ret the value its last call returned, failed whether a
\* constructor call of the thread raised
IdleThread == [pc |-> "idle", made |-> None, ret |-> None, failed |-> FALSE]

InitGetDb ==
    /\ pc = "gd_run"
    /\ _db_instance = None
    /\ managers = 0
    /\ threads = [t \in ThreadIds |-> IdleThread]
    /\ RagIdle
    /\ invocations = <<>>
    /\ enum_args = <<>>
    /\ enum_res = <<>>
    /\ session = <<>>

\* a thread calls get_db()
GetDbCall(t) ==
    /\ threads[t].pc \in {"idle", "returned", "raised"}
    /\ threads' = [threads EXCEPT ![t].pc = "check"]
    /\ UNCHANGED <<pc, rag_vars, invocations, enum_args, enum_res, session,
                   _db_instance, managers>>

\* if _db_instance is None:
GetDbCheck(t) ==
    /\ threads[t].pc = "check"
    /\ threads' = [threads EXCEPT
                      ![t].pc = IF _db_instance = None THEN "construct" ELSE "return"]
    /\ UNCHANGED <<pc, rag_vars, invocations, enum_args, enum_res, session,
                   _db_instance, managers>>

\* config = DatabaseConfig.from_env(); DatabaseManager(config) returns a new
\* manager
GetDbConstruct(t) ==
    /\ threads[t].pc = "construct"
    /\ managers' = managers + 1
    /\ threads' = [threads EXCEPT ![t].pc = "assign", ![t].made = managers + 1]
    /\ UNCHANGED <<pc, rag_vars, invocations, enum_args, enum_res, session,
                   _db_instance>>

\* DatabaseManager(config) raises (the engine cannot be initialised): the
\* call ends and _db_instance stays None
GetDbConstructRaises(t) ==
    /\ threads[t].pc = "construct"
    /\ ~threads[t].failed
    /\ threads' = [threads EXCEPT ![t].pc = "raised", ![t].failed = TRUE]
    /\ UNCHANGED <<pc, rag_vars, invocations, enum_args, enum_res, session,
                   _db_instance, managers>>

\* _db_instance = <the manager constructed>
GetDbAssign(t) ==
    /\ threads[t].pc = "assign"
    /\ _db_instance' = threads[t].made
    /\ threads' = [threads EXCEPT ![t].pc = "return"]
    /\ UNCHANGED <<pc, rag_vars, invocations, enum_args, enum_res, session, managers>>

\* return _db_instance
GetDbReturn(t) ==
    /\ threads[t].pc = "return"
    /\ threads' = [threads EXCEPT ![t].pc = "returned", ![t].ret = _db_instance]
    /\ UNCHANGED <<pc, rag_vars, invocations, enum_args, enum_res, session,
                   _db_instance, managers>>

NextGetDb ==
    \/ \E t \in ThreadIds : GetDbCall(t)
    \/ \E t \in ThreadIds : GetDbCheck(t)
    \/ \E t \in ThreadIds : GetDbConstruct(t)
    \/ \E t \in ThreadIds : GetDbConstructRaises(t)
    \/ \E t \in ThreadIds : GetDbAssign(t)
    \/ \E t \in ThreadIds : GetDbReturn(t)

SpecGetDb == InitGetDb /\ [][NextGetDb]_vars

TypeOK ==
    /\ pc \in {"start", "loop", "done", "rt_call", "rt_done",
              "ts_call", "ts_done", "pk_call", "pk_done", "pk_raised",
              "aq_call", "aq_done", "fc_call", "fc_done",
              "p_idle", "p_loop", "p_generate", "p_done", "p_raised",
              "en_call", "en_done", "fc_again", "il_run", "ss_run", "gd_run"}
    /\ rows_left \in 0..MaxRowsTotal
    /\ pc \in {"loop", "done", "rt_call", "rt_done", "p_loop", "p_generate", "p_done"}
          => Len(hits) <= 6 * topk_per_type

(***************************************************************************)
(* Vocabulary of the properties                                            *)
(***************************************************************************)
Range(s) == {s[i] : i \in 1..Len(s)}

IsSortedDesc(s) == \A i \in 1..(Len(s) - 1) : ScoreLe(s[i + 1].score, s[i].score)

ScoresOf(s) == {s[i].score : i \in 1..Len(s)}

RECURSIVE WithScore(_, _)
WithScore(s, sc) ==
    IF s = <<>> THEN <<>>
    ELSE IF Head(s).score = sc THEN <<Head(s)>> \o WithScore(Tail(s), sc)
    ELSE WithScore(Tail(s), sc)

Count(s, h) == Cardinality({i \in 1..Len(s) : s[i] = h})

CountType(s, t) == Cardinality({i \in 1..Len(s) : s[i].type = t})

\* the entry of list s for key k (s holds k)
HitOf(s, k) == s[CHOOSE i \in 1..Len(s) : HitKey(s[i]) = k]

\* a retrieve call has returned and its result has been merged
Retrieved == pc \in {"loop", "done"} /\ qi > 1

\* the score 1 / (1 + distance) in float arithmetic
CosineScore(d) == FDiv(One, FAdd(One, d))

\* the hit the claims expect for the i-th row of the source of type t: the
\* owning requirement's id for a resolvable version, else the record's id;
\* the raw distance; the score 1 / (1 + distance)
ExpectedHit(t, i) ==
    [type |-> t,
     id |-> IF t = "Requirement" /\ rows[t][i].obj.requirement # None
            THEN rows[t][i].obj.requirement
            ELSE rows[t][i].obj.id,
     distance |-> rows[t][i].dist,
     score |-> CosineScore(rows[t][i].dist),
     data |-> Snapshot(IF t = "Requirement" /\ rows[t][i].obj.requirement # None
                       THEN RequirementInstance(rows[t][i].obj.requirement)
                       ELSE rows[t][i].obj)]

ExpectedOfType(t) == [i \in 1..Min(topk_per_type, Len(rows[t])) |-> ExpectedHit(t, i)]

\* the packed rows in the order Project, Document, Idea, Change Request,
\* Stakeholder, Requirement
ExpectedInSourceOrder ==
    ExpectedOfType("Project") \o ExpectedOfType("Document") \o ExpectedOfType("Idea")
        \o ExpectedOfType("Change Request") \o ExpectedOfType("Stakeholder")
        \o ExpectedOfType("Requirement")

(***************************************************************************)
(* C1: the merged hit list of a pipeline never contains two hits with the  *)
(* same (type, id) pair.                                                   *)
(***************************************************************************)
C1_Dedup ==
    \A i, j \in 1..Len(all_hits) : i # j => HitKey(all_hits[i]) # HitKey(all_hits[j])

\* two queries were processed and the second returned a hit of an entity
\* already captured, which was dropped
C1_Witness ==
    /\ pc = "done"
    /\ Len(search_queries) = 2
    /\ \E i \in 1..Len(hits) :
          /\ HitKey(hits[i]) \in Keys(all_hits)
          /\ hits[i] \notin Range(all_hits)

(***************************************************************************)
(* C2: first wins. A hit captured for a (type, id) is the hit of the query *)
(* that returned the entity first, and no later step of the invocation     *)
(* replaces it or changes its score or distance, even when a later query   *)
(* returns the entity with a higher score.                                 *)
(***************************************************************************)
C2_FirstWins ==
    [][pc # "start" =>
         /\ \A k \in seen_ids :
               /\ k \in Keys(all_hits')
               /\ HitOf(all_hits', k) = HitOf(all_hits, k)
         /\ \A k \in seen_ids' \ seen_ids : HitOf(all_hits', k) \in Range(hits')]_vars

\* the last query returned a captured entity with a score higher than the
\* captured one, and the merged list kept the lower score
C2_Witness ==
    /\ pc = "done"
    /\ \E i \in 1..Len(hits) :
          /\ HitKey(hits[i]) \in Keys(all_hits)
          /\ ScoreLt(HitOf(all_hits, HitKey(hits[i])).score, hits[i].score)

(***************************************************************************)
(* C3 as stated: the surviving hit of every (type, id) is the highest-     *)
(* scoring occurrence of the entity among the results of all queries.      *)
(***************************************************************************)
C3_SurvivorIsBestOverall ==
    Retrieved =>
        \A i \in 1..Len(hits) :
            ScoreLe(hits[i].score, HitOf(all_hits, HitKey(hits[i])).score)

(***************************************************************************)
(* C3 amended: when a (type, id) is captured, the surviving hit is the     *)
(* highest-scoring occurrence of the entity in the result of the query     *)
(* that returned it first.                                                 *)
(***************************************************************************)
C3_SurvivorIsBestOfFirstQuery ==
    [][\A k \in seen_ids' \ seen_ids :
          \A i \in 1..Len(hits') :
              HitKey(hits'[i]) = k => ScoreLe(hits'[i].score, HitOf(all_hits', k).score)]_vars

\* one query returned the same entity twice with different scores and the
\* merged list holds the higher-scoring occurrence
C3_Witness ==
    /\ Retrieved
    /\ \E i, j \in 1..Len(hits) :
          /\ HitKey(hits[i]) = HitKey(hits[j])
          /\ ScoreLt(hits[j].score, hits[i].score)
          /\ hits[i] \in Range(all_hits)
          /\ hits[j] \notin Range(all_hits)

(***************************************************************************)
(* C4: every list returned by retrieve is sorted by score descending.      *)
(***************************************************************************)
C4_RetrieveSorted == pc = "rt_done" => IsSortedDesc(hits)

\* retrieve returned, and the sources' rows in call order were not in
\* descending score order
C4_Witness ==
    /\ pc = "rt_done"
    /\ Len(hits) >= 2
    /\ ~IsSortedDesc(ExpectedInSourceOrder)

(***************************************************************************)
(* C5: the final sort of the merged list leaves it sorted by score         *)
(* descending and is stable: hits of equal score keep the order in which   *)
(* they were appended.                                                     *)
(***************************************************************************)
C5_FinalSortStable ==
    [][pc = "loop" /\ pc' = "done" =>
         /\ IsSortedDesc(all_hits')
         /\ Len(all_hits') = Len(all_hits)
         /\ \A sc \in ScoresOf(all_hits) \cup ScoresOf(all_hits') :
               WithScore(all_hits', sc) = WithScore(all_hits, sc)]_vars

\* the sorted merged list of two queries holds two different hits of equal
\* score
C5_Witness ==
    /\ pc = "done"
    /\ Len(search_queries) = 2
    /\ \E i, j \in 1..Len(all_hits) :
          /\ i < j
          /\ all_hits[i].score = all_hits[j].score
          /\ all_hits[i] # all_hits[j]

(***************************************************************************)
(* C6: the list returned by retrieve is sorted, and its hits of equal      *)
(* score are in insertion order: by source in the order Project, Document, *)
(* Idea, Change Request, Stakeholder, Requirement and, within a source, in *)
(* the order the source returned them.                                     *)
(***************************************************************************)
C6_RetrieveTiesInSourceOrder ==
    pc = "rt_done" =>
        LET expected == ExpectedInSourceOrder
        IN  /\ IsSortedDesc(hits)
            /\ \A sc \in ScoresOf(hits) \cup ScoresOf(expected) :
                  WithScore(hits, sc) = WithScore(expected, sc)

\* retrieve returned two hits of equal score from two different sources
C6_Witness ==
    /\ pc = "rt_done"
    /\ \E i, j \in 1..Len(hits) :
          /\ i < j
          /\ hits[i].score = hits[j].score
          /\ hits[i].type # hits[j].type

(***************************************************************************)
(* C7: retrieve returns exactly the packed first topk_per_type rows of     *)
(* each source: nothing lost, nothing invented, at most topk_per_type hits *)
(* per type and 6 * topk_per_type in total; a source without rows          *)
(* contributes no hit and no error.                                        *)
(***************************************************************************)
C7_RetrieveExact ==
    pc = "rt_done" =>
        LET expected == ExpectedInSourceOrder
        IN  /\ Len(hits) <= 6 * topk_per_type
            /\ Len(hits) = Len(expected)
            /\ \A t \in EntityTypes :
                  /\ CountType(hits, t) <= topk_per_type
                  /\ rows[t] = <<>> => CountType(hits, t) = 0
            /\ \A h \in Range(hits) \cup Range(expected) :
                  Count(hits, h) = Count(expected, h)

\* a source returned more rows than the limit, another returned none
C7_Witness ==
    /\ pc = "rt_done"
    /\ hits # <<>>
    /\ \E t \in EntityTypes : Len(rows[t]) > topk_per_type
    /\ \E t \in EntityTypes : rows[t] = <<>>

(***************************************************************************)
(* C8 as stated: for metric cosine or l2 and distance >= 0 the score is in *)
(* (0, 1], is 1 exactly at distance 0, and is strictly decreasing in the   *)
(* distance.                                                               *)
(***************************************************************************)
C8_StrictlyDecreasing ==
    (pc = "ts_done" /\ ts_args.metric \in {"cosine", "l2"}
        /\ ScoreLe(Zero, ts_args.d1)) =>
        /\ ts_res[1] # ZeroDivisionError
        /\ ScoreLt(Zero, ts_res[1])
        /\ ScoreLe(ts_res[1], One)
        /\ ts_args.d1 = Zero => ts_res[1] = One
        /\ ScoreLt(ts_args.d1, ts_args.d2) => ScoreLt(ts_res[2], ts_res[1])

(***************************************************************************)
(* C8 amended: for metric cosine or l2 and distance >= 0 the score is in   *)
(* (0, 1], is 1 at distance 0, and is non-increasing in the distance       *)
(* (d1 < d2 implies score(d1) >= score(d2)).                               *)
(***************************************************************************)
C8_NormalizationBounds ==
    (pc = "ts_done" /\ ts_args.metric \in {"cosine", "l2"}
        /\ ScoreLe(Zero, ts_args.d1)) =>
        /\ ts_res[1] # ZeroDivisionError
        /\ ScoreLt(Zero, ts_res[1])
        /\ ScoreLe(ts_res[1], One)
        /\ ts_args.d1 = Zero => ts_res[1] = One
        /\ ScoreLt(ts_args.d1, ts_args.d2) =>
              /\ ts_res[2] # ZeroDivisionError
              /\ ScoreLe(ts_res[2], ts_res[1])

\* two distances 0 <= d1 < d2 were scored under cosine or l2, and their
\* scores differ
C8_Witness ==
    /\ pc = "ts_done"
    /\ ts_args.metric \in {"cosine", "l2"}
    /\ ScoreLe(Zero, ts_args.d1)
    /\ ScoreLt(ts_args.d1, ts_args.d2)
    /\ ScoreLt(ts_res[2], ts_res[1])

(***************************************************************************)
(* C9: _to_score returns a score for every finite distance and every       *)
(* metric; it never raises.                                                *)
(***************************************************************************)
C9_NeverRaises == pc = "ts_done" => ts_res[1] # ZeroDivisionError

(***************************************************************************)
(* C10: _pack scores every hit with 1 / (1 + distance) whatever the metric *)
(* of the similarity search that produced the rows, and the hit's distance *)
(* is the row's raw distance.                                              *)
(***************************************************************************)
C10_PackAlwaysCosine ==
    /\ pc = "pk_done" =>
          /\ Len(hits) = Min(topk_per_type, Len(rows[pk_type]))
          /\ \A i \in 1..Len(hits) :
                /\ hits[i].distance = rows[pk_type][i].dist
                /\ hits[i].score # ZeroDivisionError
                /\ hits[i].score = CosineScore(hits[i].distance)
    /\ pc = "pk_raised" =>
          \E i \in 1..Min(topk_per_type, Len(rows[pk_type])) :
              rows[pk_type][i].dist = Float(-1)

\* rows of an inner-product search were packed
C10_Witness ==
    /\ pc = "pk_done"
    /\ call_metric = "mips"
    /\ hits # <<>>

(***************************************************************************)
(* C11: the data snapshot of a hit has no field whose name starts with '_' *)
(* and does not contain the record's embedding vector.                     *)
(***************************************************************************)
C11_SnapshotWithoutEmbedding ==
    pc = "pk_done" =>
        \A i \in 1..Len(hits) :
            \A k \in DOMAIN hits[i].data :
                ~StartsWithUnderscore(k) /\ k # "embedding"

(***************************************************************************)
(* C12: a row (version, distance) of the Requirement source whose owning  *)
(* requirement resolves is packed as a Requirement hit with the id of the  *)
(* requirement, not of the version; a row whose requirement is None is     *)
(* packed as a Requirement hit with the version's id and the version's     *)
(* snapshot; retrieve returns in both cases.                               *)
(***************************************************************************)
IsRequirementHit(h) == h.type = "Requirement"

C12_RequirementResolution ==
    pc = "rt_done" =>
        LET rs == rows["Requirement"]
            n == Min(topk_per_type, Len(rs))
            packed == SelectSeq(hits, IsRequirementHit)
        IN  /\ Len(packed) = n
            /\ \A i \in 1..n :
                  \E j \in 1..n :
                      /\ packed[j].distance = rs[i].dist
                      /\ IF rs[i].obj.requirement # None
                         THEN /\ packed[j].id = rs[i].obj.requirement
                              /\ packed[j].id # rs[i].obj.id
                         ELSE /\ packed[j].id = rs[i].obj.id
                              /\ packed[j].data = Snapshot(rs[i].obj)

\* retrieve returned a hit of a resolved version and a hit of a version
\* without requirement
C12_Witness ==
    /\ pc = "rt_done"
    /\ \E i, j \in 1..Min(topk_per_type, Len(rows["Requirement"])) :
          /\ rows["Requirement"][i].obj.requirement # None
          /\ rows["Requirement"][j].obj.requirement = None
    /\ \E h \in Range(hits) : h.type = "Requirement" /\ h.id \in RequirementIds
    /\ \E h \in Range(hits) : h.type = "Requirement" /\ h.id \in Ids

C14_FullyTrimmed ==
    pc = "aq_done" =>
        \A i \in 1..Len(search_queries) :
            LET q == search_queries[i]
            IN  /\ Head(q) \notin AffixChars
                /\ q[Len(q)] \notin AffixChars
                /\ Len(Strip(q, AffixChars)) > 10
                /\ PostProcess(q, rag_module) = q

(***************************************************************************)
(* Reading a context: its section headers and the entries of a section     *)
(***************************************************************************)
\* the type whose section the piece opens, "" for a piece that is no header
SectionOpened(piece) ==
    CASE piece = Lit("## Relevant Documents:") -> "Document"
      [] piece = Lit("\n\n## Existing Ideas:") -> "Idea"
      [] piece = Lit("\n\n## Related Requirements:") -> "Requirement"
      [] piece = Lit("\n\n## Related Projects:") -> "Project"
      [] piece = Lit("\n\n## Recent Change Requests:") -> "Change Request"
      [] piece = Lit("\n\n## Related Stakeholders:") -> "Stakeholder"
      [] OTHER -> ""

\* the literals an entry starts with
EntryMarkTexts == {"\n### ", "\n- **", "\n- ", "\n- **Name: "}

\* the types of the section headers of ctx, in order
RECURSIVE SectionsIn(_)
SectionsIn(ctx) ==
    IF ctx = <<>> THEN <<>>
    ELSE IF SectionOpened(Head(ctx)) # "" THEN <<SectionOpened(Head(ctx))>> \o SectionsIn(Tail(ctx))
    ELSE SectionsIn(Tail(ctx))

\* the entries of ctx from piece p on, in order: for each entry mark the
\* type of the section it is in and the piece that follows it (the heading
\* of the entry); cur is the type of the section piece p is in
RECURSIVE EntriesFrom(_, _, _)
EntriesFrom(ctx, p, cur) ==
    IF p > Len(ctx) THEN <<>>
    ELSE IF ctx[p][2] \notin EntryMarkTexts
         THEN EntriesFrom(ctx, p + 1,
                          IF SectionOpened(ctx[p]) # "" THEN SectionOpened(ctx[p]) ELSE cur)
    ELSE <<[type |-> cur, heading |-> ctx[p + 1]]>> \o EntriesFrom(ctx, p + 2, cur)

EntriesIn(ctx) == EntriesFrom(ctx, 1, "")

\* the headings of the entries of type t among the entries es
RECURSIVE HeadingsOf(_, _)
HeadingsOf(es, t) ==
    IF es = <<>> THEN <<>>
    ELSE IF Head(es).type = t THEN <<Head(es).heading>> \o HeadingsOf(Tail(es), t)
    ELSE HeadingsOf(Tail(es), t)

\* the positions of the hits of type t in the list hs
PositionsOf(hs, t) == {i \in 1..Len(hs) : hs[i].type = t}

\* the hit at position i of hs is the n-th of its type
NthOfType(hs, i) == Cardinality({j \in PositionsOf(hs, hs[i].type) : j <= i})

(***************************************************************************)
(* C17: the sections of the context are those of the types present in the  *)
(* hit list, one each, in the order Document, Idea, Requirement, Project,  *)
(* Change Request, Stakeholder, whatever the order and the scores of the   *)
(* hits.                                                                   *)
(***************************************************************************)
HasHit(t) == PositionsOf(hits, t) # {}

C17_SectionOrder ==
    pc = "fc_done" =>
        SectionsIn(context) =
            SelectSeq(<<"Document", "Idea", "Requirement", "Project",
                        "Change Request", "Stakeholder">>, HasHit)

\* a Stakeholder hit precedes a Document hit in the list and has the higher
\* score, and the context has at least three sections
C17_Witness ==
    /\ pc = "fc_done"
    /\ Len(SectionsIn(context)) >= 3
    /\ \E i, j \in 1..Len(hits) :
          /\ i < j
          /\ hits[i].type = "Stakeholder"
          /\ hits[j].type = "Document"
          /\ ScoreLt(hits[j].score, hits[i].score)

(***************************************************************************)
(* C18: for every type the context renders the first min(5, n) of the n    *)
(* hits of the type, in the order of the list, and no other; at most 30    *)
(* entries in all.                                                         *)
(***************************************************************************)
C18_FirstFivePerType ==
    pc = "fc_done" =>
        \A entries \in {EntriesIn(context)} :
            /\ \A t \in EntityTypes :
                  \A headings \in {HeadingsOf(entries, t)} :
                      /\ Len(headings) = Min(5, Cardinality(PositionsOf(hits, t)))
                      /\ \A i \in PositionsOf(hits, t) :
                            NthOfType(hits, i) <= 5 =>
                                headings[NthOfType(hits, i)][3] = hits[i].id
            /\ Len(entries) <= 30

\* the list holds six hits of one type
C18_Witness ==
    /\ pc = "fc_done"
    /\ \E t \in EntityTypes : Cardinality(PositionsOf(hits, t)) > 5

(***************************************************************************)
(* C19: a rendered body text longer than the width of its type (document   *)
(* text 500, idea and requirement description 200, change-request summary  *)
(* 100) is cut to the width and followed by an ellipsis; a text not longer *)
(* than the width is rendered whole, without ellipsis.                     *)
(***************************************************************************)
C19_TruncationEllipsis ==
    pc = "fc_done" =>
        \A i \in 1..Len(hits) :
            (hits[i].type \in {"Document", "Idea", "Requirement", "Change Request"}
                /\ NthOfType(hits, i) <= 5) =>
            LET text == hits[i].data[BodyColumn(hits[i].type)]
                w == BodyWidth(hits[i].type)
            IN  \E p \in 1..Len(context) :
                    IF StrLen(text) > w
                    THEN /\ context[p] = Slice(text, w)
                         /\ p < Len(context)
                         /\ context[p + 1] = Lit("...")
                    ELSE /\ context[p] = text
                         /\ p < Len(context) => context[p + 1] # Lit("...")

(***************************************************************************)
(* C15: the aggregation of no query results is the empty hit list; the     *)
(* context of the empty hit list is the literal 'No relevant context       *)
(* found.', a non-empty string, and the context of a list holding a hit is *)
(* never that literal.                                                     *)
(***************************************************************************)
C15_SentinelIffNoHits ==
    pc = "fc_done" =>
        /\ Aggregate(<<>>) = <<>>
        /\ context # <<>>
        /\ context # <<Lit("")>>
        /\ hits = <<>> => context = <<Lit("No relevant context found.")>>
        /\ hits # <<>> => context # <<Lit("No relevant context found.")>>

\* _format_context has returned for the empty list
C15_Witness ==
    /\ pc = "fc_done"
    /\ hits = <<>>
    /\ context = <<Lit("No relevant context found.")>>

SectionSpan(ctx, t) ==
    LET headers == {p \in 1..Len(ctx) : SectionOpened(ctx[p]) # ""}
        own == {p \in headers : SectionOpened(ctx[p]) = t}
    IN  IF own = {} THEN {}
        ELSE LET h == CHOOSE p \in own : TRUE
             IN  {p \in h..Len(ctx) : \A q \in headers : q > h => p < q}

\* the number of entries the section of type t of ctx has
EntryCount(ctx, t) ==
    Cardinality({p \in SectionSpan(ctx, t) : ctx[p][2] \in EntryMarkTexts})

C20_LimitsAndCap ==
    /\ pc \in {"p_loop", "p_generate", "p_done"} =>
          /\ topk_per_type = (IF pipeline = "search" THEN 5 ELSE 10)
          /\ Len(hits) <= 6 * topk_per_type
          /\ \A t \in EntityTypes : CountType(hits, t) <= topk_per_type
    /\ pc \in {"p_generate", "p_done"} =>
          \A first \in {Take(all_hits, IF pipeline = "search" THEN 20 ELSE 30)} :
              /\ context = _format_context(first)
              /\ \A t \in EntityTypes :
                    EntryCount(context, t) = Min(5, CountType(first, t))

\* a retrieve call returned as many hits as the limits allow, the merged
\* list is longer than the cap, and a type with fewer than five hits among
\* the first N has a hit behind them
C20_Witness ==
    /\ pc = "p_done"
    /\ Len(hits) = 6 * topk_per_type
    /\ \E n \in {IF pipeline = "search" THEN 20 ELSE 30} :
          /\ Len(all_hits) > n
          /\ \E t \in EntityTypes :
                /\ CountType(Take(all_hits, n), t) < 5
                /\ CountType(all_hits, t) > CountType(Take(all_hits, n), t)

(***************************************************************************)
(* C21: an invocation of any of the four pipelines that has returned made  *)
(* these collaborator calls and no other: the expansion, then for each     *)
(* query the embedding followed by the six searches, then the generation;  *)
(* n embedding calls and 6n search calls for n queries.                    *)
(***************************************************************************)
\* the calls retrieve makes for one query
CallsPerQuery ==
    <<"embed_query", "Project", "Document", "Idea", "Change Request", "Stakeholder",
      "Requirement">>

\* the calls up to the end of the for-loop over n queries
CallsOfLoop(n) == <<"augment_query">> \o Repeated(CallsPerQuery, n)

C21_OneStateMachine ==
    pc = "p_done" =>
        /\ calls = CallsOfLoop(Len(search_queries)) \o <<"generate">>
        /\ embed_calls = Len(search_queries)
        /\ search_calls = 6 * Len(search_queries)

(***************************************************************************)
(* C22: a collaborator call that raises ends the invocation: the caller    *)
(* gets the exception and no result, the call that raised is the last call *)
(* of the invocation (no retry, no later call, no generation after a       *)
(* failed retrieval), and an invocation reaches the generation only with   *)
(* the calls of every query made in full.                                  *)
(***************************************************************************)
\* s is the beginning of t
IsPrefix(s, t) == Len(s) <= Len(t) /\ s = SubSeq(t, 1, Len(s))

C22_FailurePropagates ==
    /\ [](pc = "p_raised" =>
            /\ outcome = "raised"
            /\ \/ calls = <<"augment_query">>
               \/ /\ ~IsPrefix(calls, CallsOfLoop(qi - 1))
                  /\ IsPrefix(calls, CallsOfLoop(qi))
                  /\ qi <= Len(search_queries)
                  /\ context = <<>>
               \/ /\ IsPrefix(CallsOfLoop(Len(search_queries)) \o <<"generate">>, calls)
                  /\ \A i \in (Len(CallsOfLoop(Len(search_queries))) + 2)..Len(calls) :
                        calls[i] = "embed_query")
    /\ [](pc \in {"p_generate", "p_done"} =>
            IsPrefix(CallsOfLoop(Len(search_queries)), calls))
    /\ [](outcome = "returned" => pc \in {"p_done", "p_idle"})
    /\ [][pc = "p_raised" =>
            /\ pc' = "p_idle"
            /\ calls' = calls
            /\ outcome' = "raised"
            /\ context' = context]_vars

\* the third search of the second query raised after the first query had
\* given hits
C22_Witness ==
    /\ pc = "p_raised"
    /\ qi = 2
    /\ all_hits # <<>>
    /\ calls = CallsOfLoop(1) \o <<"embed_query", "Project", "Document", "Idea">>

(***************************************************************************)
(* C24: a string that is neither the value of a member of the enum class   *)
(* nor a key of a legacy table is never converted to a member or to the    *)
(* text of one: the type validators and FlexibleEnum's bind and result     *)
(* conversion signal it as an error.                                       *)
(***************************************************************************)
C24_NoSilentDefault ==
    (/\ pc = "en_done"
     /\ enum_args.value[1] = "str"
     /\ enum_args.value[2] \notin MemberValues(enum_args.enum_class)
     /\ enum_args.value[2] \notin LegacyKeys(enum_args.enum_class))
        => enum_res[1] = "ValueError"

C29_ResolvedRequirementRendered ==
    (/\ pc = "fc_done"
     /\ context # TypeError
     /\ rows["Requirement"] # <<>>
     /\ rows["Requirement"][1].obj.requirement # None)
        => \E p \in 1..Len(context) :
              /\ p + 3 <= Len(context)
              /\ SectionOpened(context[p]) = "Requirement"
              /\ context[p + 3] = rows["Requirement"][1].obj.title
              /\ \E q \in (p + 3)..Len(context) :
                    /\ context[q] = rows["Requirement"][1].obj.type
                    /\ \E b \in q..Len(context) :
                          context[b] = rows["Requirement"][1].obj.description

(***************************************************************************)
(* C30: _format_context returns a string for every list retrieve returns,  *)
(* also when a record holds None in a column that may be null.             *)
(***************************************************************************)
C30_FormatNeverRaises ==
    pc = "fc_done" => context # TypeError

(***************************************************************************)
(* C23: the seen-set and the accumulated hit list belong to one invocation *)
(* only.  When two invocations interleave in any order, each holds, after  *)
(* every step, the list it would hold when run alone on the results it     *)
(* was given (and returns that list sorted), and an entity marked seen by  *)
(* one invocation is never dropped from the other.                         *)
(***************************************************************************)
C23_InvocationsIndependent ==
    \A i \in InvocationIds :
        LET inv == invocations[i]
            alone == MergeAll(<<>>, {}, inv.results)
        IN  /\ inv.pc = "loop" => inv.all_hits = alone
            /\ inv.pc = "done" => inv.all_hits = Aggregate(inv.results)
            /\ \A q \in 1..Len(inv.results) : Keys(inv.results[q]) \subseteq Keys(inv.all_hits)
            /\ inv.seen_ids = Keys(inv.all_hits)

\* both invocations are in the middle of their loops, and each has captured
\* the same entity from its own results, with different scores
C23_Witness ==
    /\ \A i \in InvocationIds :
          /\ invocations[i].pc = "loop"
          /\ invocations[i].results # <<>>
    /\ \E k \in invocations[1].seen_ids \cap invocations[2].seen_ids :
          HitOf(invocations[1].all_hits, k) # HitOf(invocations[2].all_hits, k)

(***************************************************************************)
(* C28: the merged list is sound and complete with respect to the          *)
(* per-query results: every hit in it is a hit retrieve returned for one   *)
(* of the queries, every (type, id) retrieve returned for any query is in  *)
(* it exactly once, and its length is the number of distinct (type, id)    *)
(* pairs over all queries.                                                 *)
(***************************************************************************)
C28_MergedSoundAndComplete ==
    \A i \in InvocationIds :
        LET inv == invocations[i]
            returned == UNION {Range(inv.results[q]) : q \in 1..Len(inv.results)}
            pairs == UNION {Keys(inv.results[q]) : q \in 1..Len(inv.results)}
        IN  /\ Range(inv.all_hits) \subseteq returned
            /\ \A k \in pairs :
                  Cardinality({n \in 1..Len(inv.all_hits) : HitKey(inv.all_hits[n]) = k}) = 1
            /\ Len(inv.all_hits) = Cardinality(pairs)

\* an invocation returned after two queries that both returned the same
\* entity, and the merged list is shorter than the results together
C28_Witness ==
    \E i \in InvocationIds :
        LET inv == invocations[i]
        IN  /\ inv.pc = "done"
            /\ Len(inv.results) >= 2
            /\ Keys(inv.results[1]) \cap Keys(inv.results[2]) # {}
            /\ Len(inv.all_hits) < Len(inv.results[1]) + Len(inv.results[2])
            /\ Len(inv.all_hits) >= 2

\* the body or the commit raised
TryRaised(s) ==
    /\ session[s].raised # <<>>
    /\ session[s].raised[1][1] \in {"body", "commit"}

C27_Singleton ==
    /\ managers <= 1
    /\ \A t, u \in ThreadIds :
          threads[t].ret # None /\ threads[u].ret # None => threads[t].ret = threads[u].ret

====
